---------------------------- MODULE Spec2Model ----------------------------
(***************************************************************************)
(* A model of musicNet (src/musicNet/__init__.py): the Moment sweep of     *)
(* addMomentsToScore, the extraction / staging / commit pipeline of        *)
(* Database.addScore, the pattern cache of Query, the paging of results,   *)
(* and the reconstruction of a Score by Query.music21Score.                *)
(*                                                                         *)
(* The specifications that share the module:                               *)
(*   SpecMoments  addMomentsToScore and the Moment extraction callback     *)
(*   SpecIngest   Database.addScore over NodeFarm and the remote store     *)
(*   SpecCommit   Database.addScore for scores of more than one batch      *)
(*   SpecQuery    the Query builder and _assemblePattern                   *)
(*   SpecPages    results(minRow, limit) read window after window          *)
(*   SpecRebuild  music21Score and _addHierarchicalNodes                   *)
(*   SpecRemote   the calls to the remote store when the connection fails  *)
(*   SpecFarm     NodeFarm, written and read in any order                  *)
(*   SpecBuffer   NodeFarm under a run of writes longer than its buffer    *)
(*   SpecIntervals  the interval properties of NoteSimultaneousWithNote    *)
(*   SpecTokens   the tokens of musicNetServer as time passes              *)
(*   SpecPreviews the preview jobs and images of musicNetServer            *)
(*   SpecPool     the redis-backed preview workers of previews.py          *)
(*   SpecWipe     Database.wipeDatabase                                    *)
(*   SpecTypes    Database.listRelationshipTypes                           *)
(***************************************************************************)
EXTENDS Integers, Sequences, FiniteSets, TLC

VARIABLES
    \* ---- addMomentsToScore / Moment callback ----
    mpc,             \* position: "sweep", "extract", "done"
    notes,           \* the Notes of the score: id -> [moffset, offset, quarterLength, midi]
    attackOffsets,   \* sorted attack offsets not yet swept
    releaseOffsets,  \* the heap of pending release offsets
    releaseLookup,   \* release offset -> set of notes
    moments,         \* the Moments inserted in the score, in insertion order
    extracted,       \* number of Moments the extraction callback has seen
    momentEdges,     \* edges staged by addCrossPartRelationships
    \* ---- Database.addScore ----
    ipc,             \* position: "idle", "nodes", "edges", "done", "failed"
    callbacks,       \* Database._callbacks: class name -> list of callbacks
    score,           \* the object tree passed to addScore
    farm,            \* Database.nodeFarm: writeBuffer, nodeLookup, edges
    maxNodes,        \* Database.maxNodes
    maxEdges,        \* Database.maxEdges
    calls,           \* history: the callbacks invoked, in order
    live,            \* the vertex dict of every nodeData handed out, by key
    rootNode,        \* the nodeData of the score object
    pending,         \* the items of the score not yet extracted
    nodeRefs,        \* Database.nodeRefs: identity key -> remote reference
    idx,             \* the batch cursor of the running commit loop
    remoteNodes,     \* remote store: the vertices created, by reference
    remoteEdges,     \* remote store: the relationships created
    submitted,       \* history: ROWIDs of the vertex rows passed to create
    submittedEdges,  \* history: ROWIDs of the edge rows passed to create
    failedAt,        \* the phase in which addScore raised, or "none"
    \* ---- Query ----
    qpc,             \* "open", or "exited" after sys.exit(1)
    start,           \* Query.start: the start clause, NoText for None
    order,           \* Query.order: the order-by clause
    match,           \* Query.match: the Relationships, in call order
    where,           \* Query.where: Filters and Cypher texts, in call order
    returns,         \* Query.returns: the Properties, in call order
    limitReturnToWhere, \* Query.limitReturnToWhere
    pattern,         \* Query.pattern: the cached text, NoText for None
    usedNames,       \* Query._usedNames
    qerror,          \* what the last Query call raised, or "none"
    sent,            \* remote store: the queries received from Query.results
    ncalls,          \* history: the number of Query method calls made
    lastCall,        \* history: the Query method called last
    returned,        \* history: the text of the last _assemblePattern call
    since,           \* history: what was called before that call
    pendingOps,      \* history: what was called after the last call
    \* ---- paging through the results of one pattern ----
    ppc,             \* "paging", or "done" after an empty response
    storeRows,       \* remote store: the rows the pattern matches
    pageLimit,       \* the limit of every results() call
    pageMinRow,      \* the minRow of the next results() call
    fetched,         \* the rows the calls have returned, in order
    \* ---- Query.music21Score ----
    rpc,             \* "idle", "hierarchy", "filled", "done", "failed"
    remoteScore,     \* remote store: the Measures of the stored Score
    resultList,      \* the result row passed in
    metadata,        \* the column names of the row
    resultNotes,     \* the list passed to _addHierarchicalNodes
    buildFullScore,  \* the flag passed to _addHierarchicalNodes
    nodes,           \* the working set: nodes by remote identity
    relations,       \* the working set: relationships by remote identity
    queryNames,      \* queryName of the objects held in nodes
    inserted,        \* the nodes rebuilt and inserted in the Score
    visited,         \* history: the relationships the rebuild has visited
    nodeLookup,      \* Query.nodeLookup: the identities registered
    \* ---- remote calls ----
    cpc,             \* "idle", "trying", "sleeping", "returned", "raised"
    callPath,        \* the function called last
    attempt,         \* the failure counter of the results service
    tries,           \* history: the executions of the remote call in this call
    sleeps,          \* history: the sleeps of this call
    failures,        \* remote store: the connection failures so far
    \* ---- NodeFarm on its own ----
    issued,          \* history: the write commands issued, in order
    lastRead,        \* history: the read made last, with its arguments
    readResult,      \* what that read returned
    \* ---- musicNetServer ----
    tokens,          \* app.tokens: token -> [pattern, columns, previews, timestamp]
    images,          \* app.images: token -> the records waiting for that token
    inQueue,         \* the preview jobs put by getresults
    outQueue,        \* the preview records put by the workers
    workers,         \* the state of every GeneratePreviews process
    clock,           \* time, in steps of a quarter of an hour and a second
    jobsMade,        \* history: the number of jobs put on inQueue
    produced,        \* history: the records put on outQueue
    delivered,       \* history: the records returned by getimages, with the token asked
    response,        \* the response to the last request
    lastExpiry,      \* history: the time of the last expireTokens call
    issuedAt,        \* history: token -> time and makePreviews of its last submission
    \* ---- the remote store under wipeDatabase and listRelationshipTypes ----
    wpc,             \* position of wipeDatabase: "idle", "countRelationships", ..., "done", "raised"
    storeRels,       \* remote store: the number of relationships
    storeNodes,      \* remote store: the number of nodes that have a type
    referenceNode,   \* remote store: 1 when it holds the reference node, else 0
    relsDeleted,     \* history: the relationships deleted by wipeDatabase
    nodesDeleted,    \* history: the nodes deleted by wipeDatabase
    lpc,             \* position of listRelationshipTypes
    storeTypes,      \* remote store: the kinds of relationship it holds
    rTypesAttr,      \* Database.rTypes, when the attribute is set
    relateTypes,     \* the rows of the DISTINCT TYPE(r) query not yet looked up
    collected,       \* the local set rTypes
    listResult,      \* what the last listRelationshipTypes call returned
    firstResult,     \* history: what the first call returned
    listCalls,       \* history: the number of calls
    queriedInCall,   \* history: whether the call under way has queried the store
    \* ---- previews.py ----
    redisIn,         \* the redis list inQueue: pickled scoreDicts
    redisOut,        \* the redis list outQueue: pickled imageDicts
    previewWorkers,  \* previewWorkers[i]: the process in slot i and the job it holds
    pushedJobs,      \* history: number of jobs pushed onto inQueue
    pops             \* history: who popped which job off inQueue

momentVars == <<mpc, notes, attackOffsets, releaseOffsets, releaseLookup,
                moments, extracted, momentEdges>>

ingestVars == <<ipc, callbacks, score, farm, maxNodes, maxEdges, calls,
                live, rootNode, pending, nodeRefs, idx, remoteNodes, remoteEdges, submitted,
                submittedEdges, failedAt>>

queryVars == <<qpc, start, order, match, where, returns, limitReturnToWhere,
               pattern, usedNames, qerror, sent, ncalls, lastCall, returned,
               since, pendingOps>>

pageVars == <<ppc, storeRows, pageLimit, pageMinRow, fetched>>

rebuildVars == <<rpc, remoteScore, resultList, metadata, resultNotes,
                 buildFullScore, nodes, relations, queryNames, inserted,
                 visited, nodeLookup>>

remoteVars == <<cpc, callPath, attempt, tries, sleeps, failures>>

farmVars == <<issued, lastRead, readResult>>

serverVars == <<tokens, images, inQueue, outQueue, workers, clock, jobsMade, produced,
                delivered, response, lastExpiry, issuedAt>>

storeVars == <<wpc, storeRels, storeNodes, referenceNode, relsDeleted, nodesDeleted,
               lpc, storeTypes, rTypesAttr, relateTypes, collected, listResult,
               firstResult, listCalls, queriedInCall>>

poolVars == <<redisIn, redisOut, previewWorkers, pushedJobs, pops>>

vars == <<momentVars, ingestVars, queryVars, pageVars, rebuildVars, remoteVars,
          farmVars, serverVars, storeVars, poolVars>>

\* What the operations of one part of the program leave alone.
outsideMoments ==
    <<ingestVars, queryVars, pageVars, rebuildVars, remoteVars, farmVars,
      serverVars,
      storeVars,
      poolVars>>
outsideIngest ==
    <<momentVars, queryVars, pageVars, rebuildVars, remoteVars, farmVars,
      serverVars,
      storeVars,
      poolVars>>
outsideQuery ==
    <<momentVars, ingestVars, pageVars, rebuildVars, remoteVars, farmVars,
      serverVars,
      storeVars,
      poolVars>>
outsidePages ==
    <<momentVars, ingestVars, queryVars, rebuildVars, remoteVars, farmVars,
      serverVars,
      storeVars,
      poolVars>>
outsideRebuild ==
    <<momentVars, ingestVars, queryVars, pageVars, remoteVars, farmVars,
      serverVars,
      storeVars,
      poolVars>>
outsideRemote ==
    <<momentVars, ingestVars, queryVars, pageVars, rebuildVars, farmVars,
      serverVars,
      storeVars,
      poolVars>>
outsideFarm ==
    <<momentVars, queryVars, pageVars, rebuildVars, remoteVars,
      ipc, callbacks, score, maxNodes, maxEdges, calls, live, rootNode, pending,
      nodeRefs, idx, remoteNodes, remoteEdges, submitted, submittedEdges,
      failedAt,
      serverVars,
      storeVars,
      poolVars>>
outsideServer ==
    <<momentVars, ingestVars, queryVars, pageVars, rebuildVars, remoteVars,
      farmVars,
      storeVars,
      poolVars>>
outsideStore ==
    <<momentVars, ingestVars, queryVars, pageVars, rebuildVars, remoteVars,
      farmVars, serverVars,
      poolVars>>
outsidePool ==
    <<momentVars, ingestVars, queryVars, pageVars, rebuildVars, remoteVars,
      farmVars, serverVars, storeVars>>

-----------------------------------------------------------------------------
(* Generic helpers *)

Range(s) == {s[i] : i \in DOMAIN s}

RECURSIVE SetToSortedSeq(_)
SetToSortedSeq(S) ==
    IF S = {} THEN <<>>
    ELSE LET m == CHOOSE x \in S : \A y \in S : x <= y
         IN <<m>> \o SetToSortedSeq(S \ {m})

SetMin(S) == CHOOSE x \in S : \A y \in S : x <= y

Abs(x) == IF x < 0 THEN -x ELSE x

\* The orders in which a Python set can be listed.
Orderings(S) == {s \in [1..Cardinality(S) -> S] : Range(s) = S}

-----------------------------------------------------------------------------
(* Bounds *)

MaxNotes == 3

(* The shapes a Note can take in the bounded score: the offset of its       *)
(* Measure, its offset inside the Measure and its quarterLength.            *)
MeasureOffsets == {0, 1}
NoteOffsets == {0, 1}
QuarterLengths == {1, 2}

(* Note.midi, an integer MIDI pitch number.                                  *)
MaxMidi == 127
MidiPitches == 0..MaxMidi

-----------------------------------------------------------------------------
(* addMomentsToScore *)

\* addNotesFromStream: the offset accumulated down the Stream hierarchy
\* (Score and Part at offset 0, then the Measure, then the Note).
AbsOffset(n) == 0 + 0 + n.moffset + n.offset

\* addNotesFromStream: attackLookup[offset] is the set of Notes found at
\* that accumulated offset.
AttackLookup(ns) ==
    [t \in {AbsOffset(ns[i]) : i \in DOMAIN ns} |->
        {i \in DOMAIN ns : AbsOffset(ns[i]) = t}]

NewMoment(t) == [offset |-> t, sameOffset |-> {}, simultaneous |-> {}]

\* Moment.addComponents(c, sameOffset): both the True and the False branch
\* add to self.sameOffset; only sameOffset=None reaches self.simultaneous,
\* and the sweep never passes None.
AddComponents(m, c, sameOffset) ==
    IF sameOffset = TRUE
    THEN [m EXCEPT !.sameOffset = @ \cup {c}]
    ELSE [m EXCEPT !.sameOffset = @ \cup {c}]

RECURSIVE AddAll(_, _, _)
AddAll(m, cs, sameOffset) ==
    IF cs = {} THEN m
    ELSE LET c == CHOOSE x \in cs : TRUE
         IN AddAll(AddComponents(m, c, sameOffset), cs \ {c}, sameOffset)

\* "while releaseOffsets and releaseOffsets[0] <= offset": pop the heap and
\* delete the popped key from releaseLookup.  The heap is kept as the set of
\* its entries; releaseOffsets[0] is its minimum.
RECURSIVE DropPassed(_, _, _)
DropPassed(heap, lookup, offset) ==
    IF heap # {} /\ SetMin(heap) <= offset
    THEN LET r == SetMin(heap)
         IN DropPassed(heap \ {r},
                       [k \in (DOMAIN lookup) \ {r} |-> lookup[k]], offset)
    ELSE [heap |-> heap, lookup |-> lookup]

\* The release bookkeeping for the notes attacked at offset: push the release
\* offset when it is not yet in the heap, then add the note under it.
RECURSIVE PushReleases(_, _, _, _)
PushReleases(heap, lookup, ns, offset) ==
    IF ns = {} THEN [heap |-> heap, lookup |-> lookup]
    ELSE LET n == CHOOSE x \in ns : TRUE
             rel == offset + notes[n].quarterLength
             heap2 == IF rel \notin heap THEN heap \cup {rel} ELSE heap
             look2 == IF rel \notin heap
                      THEN [k \in (DOMAIN lookup) \cup {rel} |->
                               IF k = rel THEN {} ELSE lookup[k]]
                      ELSE lookup
             look3 == [look2 EXCEPT ![rel] = @ \cup {n}]
         IN PushReleases(heap2, look3, ns \ {n}, offset)

\* One iteration of "for offset in attackOffsets".
SweepStep ==
    /\ mpc = "sweep"
    /\ attackOffsets # <<>>
    /\ LET offset == Head(attackOffsets)
           dropped == DropPassed(releaseOffsets, releaseLookup, offset)
           sustained == UNION {dropped.lookup[r] : r \in dropped.heap}
           m1 == AddAll(NewMoment(offset), sustained, FALSE)
           attacked == AttackLookup(notes)[offset]
           m2 == AddAll(m1, attacked, TRUE)
           pushed == PushReleases(dropped.heap, dropped.lookup, attacked, offset)
       IN /\ moments' = Append(moments, m2)
          /\ releaseOffsets' = pushed.heap
          /\ releaseLookup' = pushed.lookup
          /\ attackOffsets' = Tail(attackOffsets)
    /\ UNCHANGED <<mpc, notes, extracted, momentEdges, outsideMoments>>

\* addMomentsToScore returns; Database.addScore then walks the score.
SweepDone ==
    /\ mpc = "sweep"
    /\ attackOffsets = <<>>
    /\ mpc' = "extract"
    /\ UNCHANGED <<notes, attackOffsets, releaseOffsets, releaseLookup,
                   moments, extracted, momentEdges, outsideMoments>>

-----------------------------------------------------------------------------
(* Database._defaultCallbacks.addCrossPartRelationships *)

MomentInNoteEdge(n, k, startMoment) ==
    [start |-> n, relationship |-> "MomentInNote", end |-> k,
     startMoment |-> IF startMoment THEN "True" ELSE "False",
     sameOffset |-> "None"]

\* _signedModulo: "while abs(val) >= mod: val -= mod * sign".
RECURSIVE SignedModuloLoop(_, _, _)
SignedModuloLoop(val, mod, sign) ==
    IF Abs(val) >= mod THEN SignedModuloLoop(val - mod * sign, mod, sign)
    ELSE val

\* _signedModulo(val, mod); sign is val / abs(val), an integer division.
SignedModuloFloored(val, mod) == val % mod
SignedModulo(val, mod) ==
    IF val = 0 THEN 0 ELSE SignedModuloLoop(val, mod, val \div Abs(val))

\* The properties of a NoteSimultaneousWithNote edge: the intervals are taken
\* from note1.midi - note2.midi; sameOffset compares note1.offset with
\* note2.offset, the offsets inside their Measures.
SimultaneousEdge(n1, n2, offsets) ==
    [start |-> n1, relationship |-> "NoteSimultaneousWithNote", end |-> n2,
     startMoment |-> "None",
     harmonicInterval |-> Abs(notes[n1].midi - notes[n2].midi),
     simpleHarmonicInterval |->
        Abs(SignedModulo(notes[n1].midi - notes[n2].midi, 12)),
     sameOffset |-> IF offsets[n1] = offsets[n2] THEN "True" ELSE "False"]

\* The double loop over notes[i], notes[j], j > i.  simuls is the dict of
\* pairs already linked; it is created afresh by every call of the callback.
RECURSIVE PairLoop(_, _, _, _, _, _)
PairLoop(ns, i, j, simuls, out, offsets) ==
    IF i > Len(ns) - 1 THEN out
    ELSE IF j > Len(ns) THEN PairLoop(ns, i + 1, i + 2, simuls, out, offsets)
    ELSE LET note1 == ns[i]
             note2 == ns[j]
         IN IF <<note1, note2>> \in simuls \/ <<note2, note1>> \in simuls
            THEN PairLoop(ns, i, j + 1, simuls, out, offsets)
            ELSE PairLoop(ns, i, j + 1, simuls \cup {<<note1, note2>>},
                          Append(out, SimultaneousEdge(note1, note2, offsets)),
                          offsets)

RECURSIVE MomentInNoteEdges(_, _, _)
MomentInNoteEdges(ns, k, startMoment) ==
    IF ns = <<>> THEN <<>>
    ELSE <<MomentInNoteEdge(Head(ns), k, startMoment)>>
         \o MomentInNoteEdges(Tail(ns), k, startMoment)

\* The callback for the Moment k of the score; simultaneous and sameOffset
\* are listed in the order the sets happen to iterate, offsets gives
\* note.offset for every note.
AddCrossPartRelationships(k, simultaneous, sameOffset, offsets) ==
    MomentInNoteEdges(simultaneous, k, FALSE)
    \o MomentInNoteEdges(sameOffset, k, TRUE)
    \o PairLoop(sameOffset \o simultaneous, 1, 2, {}, <<>>, offsets)

\* _extractNodes reaches the next Moment of the score and runs its callback.
MomentCallback ==
    /\ mpc = "extract"
    /\ extracted < Len(moments)
    /\ LET k == extracted + 1
       IN \E simultaneous \in Orderings(moments[k].simultaneous),
             sameOffset \in Orderings(moments[k].sameOffset) :
            momentEdges' = momentEdges
                \o AddCrossPartRelationships(k, simultaneous, sameOffset,
                        [n \in DOMAIN notes |-> notes[n].offset])
    /\ extracted' = extracted + 1
    /\ UNCHANGED <<mpc, notes, attackOffsets, releaseOffsets, releaseLookup,
                   moments, outsideMoments>>

ExtractDone ==
    /\ mpc = "extract"
    /\ extracted = Len(moments)
    /\ mpc' = "done"
    /\ UNCHANGED <<notes, attackOffsets, releaseOffsets, releaseLookup,
                   moments, extracted, momentEdges, outsideMoments>>

-----------------------------------------------------------------------------
(* The object tree handed to Database.addScore *)

MaxObjs == 5
MaxUserCallbacks == 2
MaxWide == 201

HIDEFROMDATABASE == 1
\* Python's None as a callback result and as a missing parent.
None == -1
NoHash == 0

batchSize == 100
FlushThreshold == 1000

Kinds == {"Score", "Part", "Measure", "Note", "Chord", "Pitch",
          "KeySignature", "Moment"}

\* The classes of the objects a music21 object of class k holds.
ChildKinds(k) ==
    CASE k = "Score" -> {"Part", "Moment"}
      [] k = "Part" -> {"Measure"}
      [] k = "Measure" -> {"Note", "Chord", "KeySignature"}
      [] k = "Chord" -> {"Note"}
      [] k = "Note" -> {"Pitch"}
      [] OTHER -> {}

\* Objects reached through obj.__dict__ (by _extractObject) rather than by
\* iterating the object.
AttrKinds == {"Pitch"}

RootKinds == {"Score", "Measure"}

ChildrenOf(t, i) == {j \in DOMAIN t.kind : t.parent[j] = i}
\* list(obj): the objects held by obj, in order.
Elements(t, i) ==
    SelectSeq([j \in DOMAIN t.kind |-> j],
              LAMBDA j : t.parent[j] = i /\ t.kind[j] \notin AttrKinds)
\* The objects among the values of obj.__dict__.
Attrs(t, i) ==
    SelectSeq([j \in DOMAIN t.kind |-> j],
              LAMBDA j : t.parent[j] = i /\ t.kind[j] \in AttrKinds)

\* The Notes addNotesFromStream finds: Notes held directly by a Measure.
StandaloneNotes(t) ==
    {j \in DOMAIN t.kind :
        /\ t.kind[j] = "Note"
        /\ t.parent[j] # 0
        /\ t.kind[t.parent[j]] = "Measure"}

RECURSIVE Ancestors(_, _)
Ancestors(t, i) ==
    IF t.parent[i] = 0 THEN {}
    ELSE {t.parent[i]} \cup Ancestors(t, t.parent[i])

\* Objects are numbered in the order a depth-first walk meets them: a new
\* object hangs off the last object or one of its ancestors.  A Moment is
\* inserted after the Parts, and only into a score that has Notes.
Extensions(t) ==
    LET n == Len(t.kind)
        spine == {n} \cup Ancestors(t, n)
    IN {[kind |-> Append(t.kind, k), parent |-> Append(t.parent, p)] :
          <<p, k>> \in {pk \in spine \X Kinds :
              /\ pk[2] \in ChildKinds(t.kind[pk[1]])
              /\ \A j \in DOMAIN t.kind : t.kind[j] # "Moment"
              /\ pk[2] = "Moment" => StandaloneNotes(t) # {}
              /\ pk[2] = "Pitch" =>
                    \A j \in ChildrenOf(t, pk[1]) : t.kind[j] # "Pitch"}}

RECURSIVE TreesOfSize(_)
TreesOfSize(n) ==
    IF n = 1 THEN {[kind |-> <<k>>, parent |-> <<0>>] : k \in RootKinds}
    ELSE UNION {Extensions(t) : t \in TreesOfSize(n - 1)}

SmallTrees == UNION {TreesOfSize(n) : n \in 1..MaxObjs}

\* A Measure holding n - 1 Notes.
WideTree(n) ==
    [kind |-> [i \in 1..n |-> IF i = 1 THEN "Measure" ELSE "Note"],
     parent |-> [i \in 1..n |-> IF i = 1 THEN 0 ELSE 1]]

WideTrees ==
    {WideTree(n) : n \in {batchSize - 1, batchSize, batchSize + 1, MaxWide}}

NoScore == [kind |-> <<>>, parent |-> <<>>]

\* hash(obj): the identity of the object.
Hash(obj) == obj

-----------------------------------------------------------------------------
(* NodeFarm *)

EmptyVertex == [type |-> "", number |-> 0, pitch |-> FALSE, extracted |-> FALSE]

EmptyFarm == [writeBuffer |-> <<>>, nodeLookup |-> <<>>, edges |-> <<>>]

\* The vertex column of a row with identity key h after the UPDATE
\* commands queued behind position p have run: the value of the last one
\* for h, or v when there is none.
VertexAfter(wb, h, p, v) ==
    LET ups == {j \in DOMAIN wb :
                  j > p /\ wb[j].op = "updateNode" /\ wb[j].hash = h}
    IN IF ups = {} THEN v
       ELSE wb[CHOOSE j \in ups : \A k \in ups : k <= j].vertex

\* flushBuffer: "for command in self.writeBuffer: c.execute(*command)", then
\* the buffer is emptied.  The commands run in queue order: an INSERT
\* appends a row, an UPDATE rewrites every row that holds its key by then.
FlushBuffer(f) ==
    IF Len(f.writeBuffer) = 0 THEN f
    ELSE LET wb == f.writeBuffer
             tagged == [i \in DOMAIN wb |-> [pos |-> i, c |-> wb[i]]]
             nodeIns == SelectSeq(tagged, LAMBDA x : x.c.op = "insertNode")
             edgeIns == SelectSeq(tagged, LAMBDA x : x.c.op = "insertEdge")
         IN [writeBuffer |-> <<>>,
             nodeLookup |->
                [i \in DOMAIN f.nodeLookup |->
                    [f.nodeLookup[i] EXCEPT
                        !.vertex = VertexAfter(wb, f.nodeLookup[i].hash, 0, @)]]
                \o [k \in DOMAIN nodeIns |->
                      [hash |-> nodeIns[k].c.hash,
                       parentHash |-> nodeIns[k].c.parentHash,
                       vertex |-> VertexAfter(wb, nodeIns[k].c.hash,
                                     nodeIns[k].pos, nodeIns[k].c.vertex)]],
             edges |->
                f.edges
                \o [k \in DOMAIN edgeIns |->
                      [startNodeHash |-> edgeIns[k].c.hash,
                       relationship |-> edgeIns[k].c.relationship,
                       endNodeHash |-> edgeIns[k].c.parentHash]]]

\* "if len(self.writeBuffer) > 1000: self.flushBuffer()", then the append.
EnqueueNeverFlushes(f, c) == [f EXCEPT !.writeBuffer = Append(@, c)]
Enqueue(f, c) ==
    LET g == IF Len(f.writeBuffer) > FlushThreshold THEN FlushBuffer(f) ELSE f
    IN [g EXCEPT !.writeBuffer = Append(@, c)]

Command(op, hash, parentHash, vertex, relationship) ==
    [op |-> op, hash |-> hash, parentHash |-> parentHash, vertex |-> vertex,
     relationship |-> relationship]

\* NodeFarm.addNode(obj, parent, vertex); kind is obj.__class__.__name__.
FarmAddNode(f, obj, kind, parent, vertex) ==
    LET v == IF vertex.type = "" THEN [vertex EXCEPT !.type = kind] ELSE vertex
    IN Enqueue(f, Command("insertNode", Hash(obj), parent, v, <<>>))

\* NodeFarm.updateNode(node, 'vertex', value).
FarmUpdateNode(f, node, value) ==
    Enqueue(f, Command("updateNode", node.hash, NoHash, value, <<>>))

\* NodeFarm.addEdge(start, relation, end).
FarmAddEdge(f, startHash, relation, endHash) ==
    Enqueue(f, Command("insertEdge", startHash, endHash, EmptyVertex, relation))

\* SELECT * FROM t WHERE ROWID >= startIdx LIMIT limit, on the flushed table.
BatchFrom(table, startIdx, limit) ==
    LET first == IF startIdx < 1 THEN 1 ELSE startIdx
        last == IF first + limit - 1 > Len(table)
                THEN Len(table) ELSE first + limit - 1
    IN [i \in 1..(IF last >= first THEN last - first + 1 ELSE 0) |->
           [rowid |-> first + i - 1, row |-> table[first + i - 1]]]

GetNodeBatchSkipsFirst(f, startIdx, limit) ==
    BatchFrom(FlushBuffer(f).nodeLookup, startIdx + 2, limit)
GetNodeBatch(f, startIdx, limit) ==
    BatchFrom(FlushBuffer(f).nodeLookup, startIdx, limit)

GetEdgeBatch(f, startIdx, limit) ==
    BatchFrom(FlushBuffer(f).edges, startIdx, limit)

-----------------------------------------------------------------------------
(* Database: callbacks and extraction *)

DefaultCallback(name) == [name |-> name, rc |-> None]

\* Database._defaultCallbacks: the registry after __init__.
DefaultCallbacks ==
    [k \in Kinds |->
        CASE k = "Score" -> <<DefaultCallback("addNumbersToParts")>>
          [] k = "Part" -> <<DefaultCallback("resetExtractState")>>
          [] k = "Measure" -> <<DefaultCallback("addSignaturesAndClefs")>>
          [] k = "Chord" -> <<DefaultCallback("labelChordNotes")>>
          [] k = "Note" -> <<DefaultCallback("addNoteVoiceleading")>>
          [] k = "Pitch" -> <<DefaultCallback("addPitchToNote")>>
          [] k = "Moment" -> <<DefaultCallback("addCrossPartRelationships")>>
          [] k = "KeySignature" -> <<DefaultCallback("skipThisObject")>>]

\* The classes addPropertyCallback is called for, and what the registered
\* function returns: nothing, the HIDE sentinel, or another value; or it
\* raises an exception (Raises), as addSpannerRelationship does for a
\* Spanner it does not support.
UserEntities == {"Measure", "Note"}
Raises == -2
UserReturns == {None, HIDEFROMDATABASE, 2, Raises}

UserCallbackCount(cbs) ==
    Cardinality({<<k, i>> \in Kinds \X (1..(MaxUserCallbacks + 2)) :
                    i <= Len(cbs[k]) /\ cbs[k][i].name = "user"})

\* The extraction state: the NodeFarm, the counters, the vertex dict of
\* every nodeData handed out (live) and the history of callback calls.
NoNode == [hash |-> NoHash, parentHash |-> NoHash]

StartState ==
    [farm |-> EmptyFarm, maxNodes |-> 0, maxEdges |-> 0, calls |-> <<>>,
     live |-> <<>>, raised |-> FALSE]

\* The extraction state between two items of the score.
CurrentState ==
    [farm |-> farm, maxNodes |-> maxNodes, maxEdges |-> maxEdges,
     calls |-> calls, live |-> live, raised |-> FALSE]

SetLive(dict, h, v) ==
    [k \in (DOMAIN dict) \cup {h} |-> IF k = h THEN v ELSE dict[k]]

\* Database._addEdge(start, relationship, end).
AddEdge(st, startObj, relationship, end) ==
    [st EXCEPT !.farm = FarmAddEdge(@, startObj, relationship, end),
               !.maxEdges = @ + 1]

RECURSIVE AddEdges(_, _)
AddEdges(st, es) ==
    IF es = <<>> THEN st
    ELSE AddEdges(AddEdge(st, Head(es).start, <<Head(es).relationship>>,
                          Head(es).end), Tail(es))

\* addNumbersToParts: stage every Part of the score with its number.
RECURSIVE AddNumbersToParts(_, _, _, _, _)
AddNumbersToParts(t, st, scoreObj, items, number) ==
    IF items = <<>> THEN st
    ELSE LET obj == Head(items)
         IN IF t.kind[obj] = "Part"
            THEN AddNumbersToParts(t,
                    [st EXCEPT
                       !.farm = FarmAddNode(@, obj, t.kind[obj], Hash(scoreObj),
                                   [EmptyVertex EXCEPT !.number = number + 1]),
                       !.maxNodes = @ + 1],
                    scoreObj, Tail(items), number + 1)
            ELSE AddNumbersToParts(t, st, scoreObj, Tail(items), number)

RECURSIVE ExtractNodes(_, _, _, _)
RECURSIVE ExtractEach(_, _, _, _)
RECURSIVE AddNode(_, _, _, _, _)
RECURSIVE ExtractObject(_, _, _, _)
RECURSIVE RunCallbackList(_, _, _, _, _, _)
RECURSIVE Callback(_, _, _, _, _)
RECURSIVE LabelChordNotes(_, _, _, _)

\* labelChordNotes: db._addNode(noteObj, measureNode, noteVertex) for every
\* note of the Chord.
LabelChordNotes(t, st, items, measureNode) ==
    IF items = <<>> \/ st.raised THEN st
    ELSE LabelChordNotes(t,
            AddNode(t, st, Head(items), measureNode, EmptyVertex).st,
            Tail(items), measureNode)

\* One registered callback, called as callback(db, node, vertex, parentData).
Callback(t, st, cb, node, parentData) ==
    CASE cb.name = "addNumbersToParts" ->
           [st |-> AddNumbersToParts(t, st, node, Elements(t, node), 0),
            rc |-> None]
      [] cb.name = "labelChordNotes" ->
           [st |-> LabelChordNotes(t, st, Elements(t, node), parentData),
            rc |-> HIDEFROMDATABASE]
      [] cb.name = "addPitchToNote" ->
           LET noteVertex == [st.live[parentData.hash] EXCEPT !.pitch = TRUE]
           IN [st |-> [st EXCEPT
                        !.live = SetLive(@, parentData.hash, noteVertex),
                        !.farm = FarmUpdateNode(@, parentData, noteVertex)],
               rc |-> HIDEFROMDATABASE]
      [] cb.name = "addCrossPartRelationships" ->
           LET sameOffset == SetToSortedSeq(StandaloneNotes(t))
           IN [st |-> AddEdges(st,
                        AddCrossPartRelationships(Hash(node), <<>>, sameOffset,
                            [n \in StandaloneNotes(t) |-> 0])),
               rc |-> None]
      [] cb.name = "skipThisObject" ->
           [st |-> st, rc |-> HIDEFROMDATABASE]
      [] cb.name = "user" ->
           IF cb.rc = Raises
           THEN [st |-> [st EXCEPT !.raised = TRUE], rc |-> None]
           ELSE [st |-> st, rc |-> cb.rc]
      [] OTHER ->
           \* resetExtractState, addSignaturesAndClefs, addNoteVoiceleading:
           \* no vertex is staged and nothing is returned.
           [st |-> st, rc |-> None]

\* "if rc != None: return rc" in _runCallbacks.
Stops(rc) == rc # None

\* "if self._runCallbacks(...) == self.HIDEFROMDATABASE" in _addNode.
SuppressedNever(rc) == FALSE
SuppressedByAnyValue(rc) == rc # None
Suppressed(rc) == rc = HIDEFROMDATABASE

\* The loop of _runCallbacks over self._callbacks[kind]: the first result
\* that is not None is returned and ends the loop.
RunCallbackList(t, st, node, parentData, cbs, i) ==
    IF i > Len(cbs) THEN [st |-> st, rc |-> None]
    ELSE LET called == [st EXCEPT !.calls =
                          Append(@, [callback |-> cbs[i], obj |-> node, pos |-> i])]
             r == Callback(t, called, cbs[i], node, parentData)
         IN IF Stops(r.rc) \/ r.st.raised THEN r
            ELSE RunCallbackList(t, r.st, node, parentData, cbs, i + 1)

\* Database._runCallbacks.
RunCallbacks(t, st, node, parentData) ==
    RunCallbackList(t, st, node, parentData, callbacks[t.kind[node]], 1)

\* Database._addNode(node, parentData, vertex).
AddNode(t, st, node, parentData, vertex0) ==
    LET kind == t.kind[node]
        vertex == [vertex0 EXCEPT !.type = kind]
        cb == RunCallbacks(t, st, node, parentData)
    IN IF cb.st.raised \/ Suppressed(cb.rc)
       THEN [st |-> cb.st, hidden |-> TRUE, node |-> NoNode]
       ELSE LET parentHash == IF parentData # NoNode
                              THEN parentData.hash ELSE NoHash
                nodeData == [hash |-> Hash(node), parentHash |-> parentHash]
                s1 == [cb.st EXCEPT
                         !.farm = FarmAddNode(@, node, kind, parentHash, vertex),
                         !.maxNodes = @ + 1,
                         !.live = SetLive(@, Hash(node), vertex)]
                s2 == IF parentData # NoNode
                      THEN AddEdge(s1, Hash(node),
                               <<vertex.type, "In",
                                 s1.live[parentData.hash].type>>,
                               parentData.hash)
                      ELSE s1
            IN IF kind = "Moment"
               THEN [st |-> s2, hidden |-> FALSE, node |-> NoNode]
               ELSE [st |-> ExtractObject(t, s2, node, nodeData),
                     hidden |-> FALSE, node |-> nodeData]

\* Database._extractObject(obj, objData): the attribute objects are
\* extracted as children, then the vertex is written back.
ExtractObject(t, st, obj, objData) ==
    LET s1 == ExtractEach(t, st, Attrs(t, obj), objData)
        vertex == [s1.live[objData.hash] EXCEPT !.extracted = TRUE]
    IN IF s1.raised THEN s1
       ELSE
       [s1 EXCEPT !.live = SetLive(@, objData.hash, vertex),
                  !.farm = FarmUpdateNode(@, objData, vertex)]

ExtractEach(t, st, items, parentNode) ==
    IF items = <<>> \/ st.raised THEN st
    ELSE ExtractEach(t, ExtractNodes(t, st, Head(items), parentNode),
                     Tail(items), parentNode)

\* Database._extractNodes(obj, parentNode).
ExtractNodes(t, st, obj, parentNode) ==
    LET r == AddNode(t, st, obj, parentNode, EmptyVertex)
    IN IF r.hidden \/ r.st.raised THEN r.st
       ELSE IF t.kind[obj] = "Moment" THEN r.st
       ELSE ExtractEach(t, r.st, Elements(t, obj), r.node)

-----------------------------------------------------------------------------
(* Database.addPropertyCallback and Database.addScore *)

AddPropertyCallback ==
    /\ ipc = "idle"
    /\ UserCallbackCount(callbacks) < MaxUserCallbacks
    /\ \E entity \in UserEntities, rc \in UserReturns :
         callbacks' = [callbacks EXCEPT ![entity] =
                          Append(@, [name |-> "user", rc |-> rc])]
    /\ UNCHANGED <<ipc, score, farm, maxNodes, maxEdges, calls, live, rootNode,
                   pending, nodeRefs, idx, remoteNodes, remoteEdges, submitted,
                   submittedEdges, failedAt, outsideIngest>>

\* The extraction state becomes the state of the Database; an exception
\* raised by a callback ends addScore.
Extracted(st, items, node) ==
    /\ farm' = st.farm
    /\ maxNodes' = st.maxNodes
    /\ maxEdges' = st.maxEdges
    /\ calls' = st.calls
    /\ live' = st.live
    /\ rootNode' = node
    /\ pending' = IF st.raised THEN <<>> ELSE items
    /\ ipc' = IF st.raised THEN "failed" ELSE "extract"
    /\ failedAt' = IF st.raised THEN "extract" ELSE failedAt

\* addScore(t) up to the first statements of self._extractNodes(score):
\* the score object itself is added, its items are listed.
AddScoreOf(trees) ==
    /\ ipc = "idle"
    /\ \E t \in trees :
         LET r == AddNode(t, StartState, 1, NoNode, EmptyVertex)
         IN /\ score' = t
            /\ Extracted(r.st,
                         IF r.hidden \/ t.kind[1] = "Moment"
                         THEN <<>> ELSE Elements(t, 1),
                         r.node)
    /\ nodeRefs' = <<>>
    /\ idx' = 0
    /\ UNCHANGED <<callbacks, remoteNodes, remoteEdges, submitted,
                   submittedEdges, outsideIngest>>

AddScore == AddScoreOf(SmallTrees)

AddWideScore == AddScoreOf(WideTrees)

\* One iteration of "for item in itemList: self._extractNodes(item, objNode)"
\* for the score object.
ExtractItem ==
    /\ ipc = "extract"
    /\ pending # <<>>
    /\ Extracted(ExtractNodes(score, CurrentState, Head(pending), rootNode),
                 Tail(pending), rootNode)
    /\ UNCHANGED <<callbacks, score, nodeRefs, idx, remoteNodes, remoteEdges,
                   submitted, submittedEdges, outsideIngest>>

\* self._extractNodes(score) returns and _writeNodesToDatabase starts.
ExtractReturns ==
    /\ ipc = "extract"
    /\ pending = <<>>
    /\ ipc' = "nodes"
    /\ idx' = 0
    /\ UNCHANGED <<callbacks, score, farm, maxNodes, maxEdges, calls, live,
                   rootNode, pending, nodeRefs, remoteNodes, remoteEdges,
                   submitted, submittedEdges, failedAt, outsideIngest>>

\* graph_db.create(*vertices): the references come back in request order.
CreatedRefs(store, n) == [i \in 1..n |-> Len(store) + i]

\* "for i in range(len(results)): self.nodeRefs[subset[i]['hash']] =
\* results[i]": a key that occurs twice keeps the later reference.
StoreRefs(refs, subset, results) ==
    LET keys == {subset[i].row.hash : i \in DOMAIN results}
        lastAt(h) == CHOOSE i \in DOMAIN results :
                        /\ subset[i].row.hash = h
                        /\ \A j \in DOMAIN results :
                              subset[j].row.hash = h => j <= i
    IN [h \in (DOMAIN refs) \cup keys |->
           IF h \in keys THEN results[lastAt(h)] ELSE refs[h]]

\* One iteration of the loop of _writeNodesToDatabase.
WriteNodesBatch ==
    /\ ipc = "nodes"
    /\ LET subset == GetNodeBatch(farm, idx, batchSize)
       IN IF Len(subset) = 0
          THEN /\ ipc' = "edges"
               /\ idx' = 0
               /\ UNCHANGED <<remoteNodes, nodeRefs, submitted>>
          ELSE LET vertices == [i \in DOMAIN subset |-> subset[i].row.vertex]
                   results == CreatedRefs(remoteNodes, Len(vertices))
               IN /\ remoteNodes' = remoteNodes \o vertices
                  /\ submitted' = submitted
                        \o [i \in DOMAIN subset |-> subset[i].rowid]
                  /\ nodeRefs' = StoreRefs(nodeRefs, subset, results)
                  /\ idx' = idx + Len(results)
                  /\ ipc' = ipc
    /\ farm' = FlushBuffer(farm)
    /\ UNCHANGED <<callbacks, score, maxNodes, maxEdges, calls, live,
                   rootNode, pending, remoteEdges, submittedEdges, failedAt,
                   outsideIngest>>

\* self.nodeRefs[key] succeeds for both keys of every edge of the batch;
\* otherwise it raises KeyError.
ResolvableEndOnly(subset) ==
    \A i \in DOMAIN subset : subset[i].row.endNodeHash \in DOMAIN nodeRefs
Resolvable(subset) ==
    \A i \in DOMAIN subset :
        /\ subset[i].row.startNodeHash \in DOMAIN nodeRefs
        /\ subset[i].row.endNodeHash \in DOMAIN nodeRefs

NoRef == 0
RefOf(key) == IF key \in DOMAIN nodeRefs THEN nodeRefs[key] ELSE NoRef

\* The edge rows of a batch with both ends replaced by nodeRefs entries.
EdgeRefs(subset) ==
    [i \in DOMAIN subset |->
        [start |-> RefOf(subset[i].row.startNodeHash),
         relationship |-> subset[i].row.relationship,
         end |-> RefOf(subset[i].row.endNodeHash)]]

\* One iteration of the loop of _writeEdgesToDatabase; self.nodeRefs[...]
\* raises KeyError for an identity key without a reference, before create.
WriteEdgesBatch ==
    /\ ipc = "edges"
    /\ LET subset == GetEdgeBatch(farm, idx, batchSize)
       IN IF Len(subset) = 0
          THEN /\ ipc' = "done"
               /\ UNCHANGED <<remoteEdges, submittedEdges, idx, failedAt>>
          ELSE IF ~Resolvable(subset)
          THEN /\ ipc' = "failed"
               /\ failedAt' = "edges"
               /\ UNCHANGED <<remoteEdges, submittedEdges, idx>>
          ELSE /\ remoteEdges' = remoteEdges \o EdgeRefs(subset)
               /\ submittedEdges' = submittedEdges
                     \o [i \in DOMAIN subset |-> subset[i].rowid]
               /\ idx' = idx + batchSize
               /\ UNCHANGED <<ipc, failedAt>>
    /\ farm' = FlushBuffer(farm)
    /\ UNCHANGED <<callbacks, score, maxNodes, maxEdges, calls, live,
                   rootNode, pending, nodeRefs, remoteNodes, submitted,
                   outsideIngest>>

\* _serverCall(self.graph_db.create, ...) raises: the store is unreachable.
ServerCallFails ==
    /\ \/ ipc = "nodes" /\ Len(GetNodeBatch(farm, idx, batchSize)) > 0
       \/ /\ ipc = "edges"
          /\ Len(GetEdgeBatch(farm, idx, batchSize)) > 0
          /\ Resolvable(GetEdgeBatch(farm, idx, batchSize))
    /\ failedAt' = ipc
    /\ ipc' = "failed"
    /\ farm' = FlushBuffer(farm)
    /\ UNCHANGED <<callbacks, score, maxNodes, maxEdges, calls, live,
                   rootNode, pending, nodeRefs, idx, remoteNodes, remoteEdges,
                   submitted, submittedEdges, outsideIngest>>

-----------------------------------------------------------------------------
(* Query: entities and text *)

\* The number of Query method calls in one run.
MaxCalls == 4

\* None as a text, and as a name or type argument.
NoText == <<>>
NoName == <<>>
NoType == ""

\* random.randint(0, 9999) in _addName, as the digits "%04d" prints.
AutoDigits == {"0000", "0001"}

NodeTypeArgs == {NoType, "Note"}
RelationTypeArgs == {NoType, "NoteSimultaneousWithNote"}
NameArgs == {NoName, <<"Note", "0000">>}
OptionalArgs == {FALSE, TRUE}
PropertyNames == {"midi", "ID"}
Operators == {"="}
\* The right operand of a Filter: a number or a string.
Operands == {[isString |-> FALSE, text |-> "7"],
             [isString |-> TRUE, text |-> "C"]}
CypherTexts == {"n.midi > 60"}

\* Entity._addName(name) on the name list used: the name registered, and
\* whether ValueError was raised.  digits is what random.randint produced
\* in the last round of the loop, the one that found an unused name.
AutoName(entityType, digits) ==
    <<IF entityType = "*" THEN "Generic" ELSE entityType, digits>>

AutoNameFree(used, entityType, name, digits) ==
    name = NoName => AutoName(entityType, digits) \notin Range(used)

AddNameUnchecked(used, entityType, name, digits) ==
    LET n == IF name = NoName THEN AutoName(entityType, digits) ELSE name
    IN [ok |-> TRUE, name |-> n, used |-> Append(used, n)]
AddName(used, entityType, name, digits) ==
    LET n == IF name = NoName THEN AutoName(entityType, digits) ELSE name
    IN IF n \in Range(used)
       THEN [ok |-> FALSE, name |-> n, used |-> used]
       ELSE [ok |-> TRUE, name |-> n, used |-> Append(used, n)]

\* Node(query, nodeType, name).
NewNode(used, nodeType, name, digits) ==
    LET type == IF nodeType = NoType THEN "*" ELSE nodeType
        r == AddName(used, type, name, digits)
    IN [ok |-> r.ok, used |-> r.used,
        node |-> [name |-> r.name, nodeType |-> type]]

NoNodeArg == [name |-> NoName, nodeType |-> NoType]

\* Relationship(query, relationType, start, end, name, optional): the
\* missing ends are created first, then the relationship is named.
NewRelationship(used, relationType, startArg, endArg, name, optional, d) ==
    LET type == IF relationType = NoType THEN "*" ELSE relationType
        s == IF startArg = NoNodeArg
             THEN NewNode(used, NoType, NoName, d[1])
             ELSE [ok |-> TRUE, used |-> used, node |-> startArg]
        e == IF endArg = NoNodeArg
             THEN NewNode(s.used, NoType, NoName, d[2])
             ELSE [ok |-> TRUE, used |-> s.used, node |-> endArg]
        r == AddName(e.used, type, name, d[3])
    IN [ok |-> r.ok, used |-> r.used,
        relation |-> [name |-> r.name, relationType |-> type,
                      start |-> s.node, end |-> e.node,
                      optional |-> IF optional THEN "?" ELSE ""]]

\* The random names a Relationship call draws are all unused.
RelationshipNamesFree(used, relationType, startArg, endArg, name, d) ==
    LET type == IF relationType = NoType THEN "*" ELSE relationType
        s == IF startArg = NoNodeArg
             THEN NewNode(used, NoType, NoName, d[1])
             ELSE [ok |-> TRUE, used |-> used, node |-> startArg]
        e == IF endArg = NoNodeArg
             THEN NewNode(s.used, NoType, NoName, d[2])
             ELSE [ok |-> TRUE, used |-> s.used, node |-> endArg]
    IN /\ startArg = NoNodeArg => AutoNameFree(used, "*", NoName, d[1])
       /\ endArg = NoNodeArg => AutoNameFree(s.used, "*", NoName, d[2])
       /\ AutoNameFree(e.used, type, name, d[3])

\* The Nodes the caller holds: the ends of the Relationships made so far.
KnownNodes == UNION {{match[i].start, match[i].end} : i \in DOMAIN match}

\* The name of the start entity, as the order-by clause holds it.
StartName ==
    IF order = <<>> THEN <<>> ELSE SubSeq(order, 2, Len(order) - 1)

\* entity.<name>: the Properties the caller reads off the start entity.
Properties ==
    IF order = <<>> THEN {}
    ELSE {[parent |-> StartName, name |-> p] : p \in PropertyNames}

Star == [parent |-> NoName, name |-> "*"]

\* __repr__ of Relationship, Property and Filter, and str of a where item.
RelationshipText(r) ==
    <<"(">> \o r.start.name \o <<")-[">> \o r.name
        \o <<r.optional, ":", r.relationType, "]->(">> \o r.end.name
        \o <<")">>

PropertyText(p) ==
    IF p = Star THEN <<"*">>
    ELSE IF p.name = "ID" THEN <<"ID(">> \o p.parent \o <<")">>
    ELSE p.parent \o <<".", p.name>>

OperandText(x) == IF x.isString THEN <<"\"", x.text, "\"">> ELSE <<x.text>>

WhereText(w) ==
    IF w.cypher # "" THEN <<w.cypher>>
    ELSE PropertyText(w.pre) \o <<" ", w.operator, " ">> \o OperandText(w.post)

NewFilter(pre, operator, post) ==
    [cypher |-> "", pre |-> pre, operator |-> operator, post |-> post]

CypherFilter(text) ==
    [cypher |-> text, pre |-> Star, operator |-> "",
     post |-> [isString |-> FALSE, text |-> ""]]

\* sep.join(texts)
RECURSIVE Join(_, _)
Join(texts, sep) ==
    IF texts = <<>> THEN <<>>
    ELSE IF Len(texts) = 1 THEN texts[1]
    ELSE texts[1] \o <<sep>> \o Join(Tail(texts), sep)

\* Iterating set(props): the order is a function of the elements.
SetOrder(S) == CHOOSE o \in Orderings(S) : TRUE

\* The body of _assemblePattern below the cache test.
Assemble(startStr, m, w, r, limited, orderStr) ==
    LET matchStr == IF m = <<>> THEN <<>>
                    ELSE <<"match\n">>
                         \o Join([i \in DOMAIN m |-> RelationshipText(m[i])],
                                 ",\n")
                         \o <<"\n">>
        whereStr == IF w = <<>> THEN <<>>
                    ELSE <<"where\n">>
                         \o Join([i \in DOMAIN w |-> WhereText(w[i])],
                                 "\nand ")
                         \o <<"\n">>
        props == Range(r) \cup (IF limited THEN {} ELSE {Star})
        ordered == SetOrder(props)
        returnStr == <<"return ">>
                     \o Join([i \in DOMAIN ordered |->
                                 PropertyText(ordered[i])], ", ")
                     \o <<"\n">>
    IN startStr \o matchStr \o whereStr \o returnStr \o orderStr
           \o <<"skip {minRow}\n", "limit {maxResults}\n", ";">>

-----------------------------------------------------------------------------
(* Query: the calls *)

\* "self.pattern = None", the first statement of every mutator.
ResetPatternForgotten == pattern' = pattern
ResetPattern == pattern' = NoText

\* Whether the calls since the last compilation added a
\* Relationship, a where item or a Property that was not there.
Noted(added) ==
    pendingOps' = IF added \/ pendingOps = "added" THEN "added" ELSE "mutated"

\* A call of a Query method starts.
Called ==
    /\ qpc = "open"
    /\ ncalls < MaxCalls
    /\ ncalls' = ncalls + 1

Call(method) == Called /\ lastCall' = method

StartNodeClause(node) ==
    <<"start ">> \o node.name
        \o <<"=node:node_auto_index(\"type:", node.nodeType, "\")\n">>

StartRelationshipClause(relation) ==
    <<"start ">> \o relation.name
        \o <<"=relationship:relationship_auto_index(\"type:",
             relation.relationType, "\")\n">>

OrderClause(name) == <<"order by ID(">> \o name \o <<")\n">>

\* Query.setStartNode(nodeType=..., name=...) and setStartNode(node).
SetStartNode ==
    /\ Call("setStartNode")
    /\ ResetPattern
    /\ \/ \E nodeType \in NodeTypeArgs, name \in NameArgs,
             digits \in AutoDigits :
            /\ AutoNameFree(usedNames,
                   IF nodeType = NoType THEN "*" ELSE nodeType, name, digits)
            /\ LET r == NewNode(usedNames, nodeType, name, digits)
               IN /\ usedNames' = r.used
                  /\ IF r.ok
                     THEN /\ start' = StartNodeClause(r.node)
                          /\ order' = OrderClause(r.node.name)
                          /\ qerror' = "none"
                     ELSE /\ qerror' = "ValueError"
                          /\ UNCHANGED <<start, order>>
       \/ \E node \in KnownNodes :
            /\ start' = StartNodeClause(node)
            /\ order' = OrderClause(node.name)
            /\ qerror' = "none"
            /\ UNCHANGED usedNames
    /\ Noted(FALSE)
    /\ UNCHANGED <<qpc, sent, match, where, returns, limitReturnToWhere, returned, since,
                   outsideQuery>>

\* Query.setStartRelationship(relationType=..., name=...).
SetStartRelationship ==
    /\ Call("setStartRelationship")
    /\ ResetPattern
    /\ \E relationType \in RelationTypeArgs, name \in NameArgs,
          d \in AutoDigits \X AutoDigits \X AutoDigits :
         /\ RelationshipNamesFree(usedNames, relationType, NoNodeArg,
                                  NoNodeArg, name, d)
         /\ LET r == NewRelationship(usedNames, relationType, NoNodeArg,
                                     NoNodeArg, name, FALSE, d)
            IN /\ usedNames' = r.used
               /\ IF r.ok
                  THEN /\ match' = IF relationType # NoType
                                   THEN Append(match, r.relation) ELSE match
                       /\ start' = StartRelationshipClause(r.relation)
                       /\ order' = OrderClause(r.relation.name)
                       /\ qerror' = "none"
                       /\ Noted(relationType # NoType)
                  ELSE /\ qerror' = "ValueError"
                       /\ Noted(FALSE)
                       /\ UNCHANGED <<match, start, order>>
    /\ UNCHANGED <<qpc, sent, where, returns, limitReturnToWhere, returned, since,
                   outsideQuery>>

\* Query.addRelationship(relationType=..., end=..., optional=...).
AddRelationship ==
    /\ Call("addRelationship")
    /\ ResetPattern
    /\ \E relationType \in RelationTypeArgs, name \in {NoName},
          startArg \in {NoNodeArg},
          endArg \in KnownNodes \cup {NoNodeArg},
          optional \in OptionalArgs,
          d \in AutoDigits \X AutoDigits \X AutoDigits :
         /\ RelationshipNamesFree(usedNames, relationType, startArg, endArg,
                                  name, d)
         /\ LET r == NewRelationship(usedNames, relationType, startArg,
                                     endArg, name, optional, d)
            IN /\ usedNames' = r.used
               /\ IF r.ok
                  THEN /\ match' = Append(match, r.relation)
                       /\ qerror' = "none"
                       /\ Noted(TRUE)
                  ELSE /\ qerror' = "ValueError"
                       /\ Noted(FALSE)
                       /\ UNCHANGED match
    /\ UNCHANGED <<qpc, sent, start, order, where, returns, limitReturnToWhere,
                   returned, since, outsideQuery>>

\* Query.addComparisonFilter(pre, operator, post).
AddComparisonFilter ==
    /\ Call("addComparisonFilter")
    /\ ResetPattern
    /\ \E pre \in Properties, operator \in Operators, post \in Operands :
         LET filt == NewFilter(pre, operator, post)
         IN /\ where' = IF filt \notin Range(where)
                        THEN Append(where, filt) ELSE where
            /\ Noted(filt \notin Range(where))
    /\ qerror' = "none"
    /\ UNCHANGED <<qpc, sent, start, order, match, returns, limitReturnToWhere,
                   usedNames, returned, since,
                   outsideQuery>>

\* Query.addCypherFilter(text).
AddCypherFilter ==
    /\ Call("addCypherFilter")
    /\ ResetPattern
    /\ \E text \in CypherTexts : where' = Append(where, CypherFilter(text))
    /\ Noted(TRUE)
    /\ qerror' = "none"
    /\ UNCHANGED <<qpc, sent, start, order, match, returns, limitReturnToWhere,
                   usedNames, returned, since,
                   outsideQuery>>

\* Query.addReturns(*props), for one or two Properties.
AddReturns ==
    /\ Call("addReturns")
    /\ ResetPattern
    /\ \E props \in {<<p>> : p \in Properties}
                        \cup {<<p, p>> : p \in Properties} :
         /\ returns' = returns \o props
         /\ Noted(\E i \in DOMAIN props : props[i] \notin Range(returns))
    /\ qerror' = "none"
    /\ UNCHANGED <<qpc, sent, start, order, match, where, limitReturnToWhere,
                   usedNames, returned, since,
                   outsideQuery>>

\* "q.limitReturnToWhere = True", as Database.listScores does between the
\* last mutator call and the first q.results().
SetLimitReturnToWhere ==
    /\ qpc = "open"
    /\ pattern = NoText
    /\ returned = NoText
    /\ ~limitReturnToWhere
    /\ limitReturnToWhere' = TRUE
    /\ UNCHANGED <<qpc, sent, start, order, match, where, returns, pattern,
                   usedNames, qerror, ncalls, lastCall, returned, since,
                   pendingOps,
                   outsideQuery>>

\* "if startStr == None" in _assemblePattern: no start clause was set.
AnchoredAlways == TRUE
Anchored == start # NoText

\* What _assemblePattern() does: the cached text, sys.exit(1), or the text
\* assembled now.
CompileOutcome ==
    IF pattern # NoText THEN [exit |-> FALSE, text |-> pattern]
    ELSE IF ~Anchored THEN [exit |-> TRUE, text |-> NoText]
    ELSE [exit |-> FALSE,
          text |-> Assemble(start, match, where, returns,
                            limitReturnToWhere, order)]

\* The effect of _assemblePattern() on the Query.
Compile(c) ==
    IF c.exit
    THEN /\ qpc' = "exited"
         /\ qerror' = "exit"
         /\ UNCHANGED <<pattern, returned, since, pendingOps>>
    ELSE /\ pattern' = c.text
         /\ returned' = c.text
         /\ since' = IF returned = NoText THEN "first" ELSE pendingOps
         /\ pendingOps' = "nothing"
         /\ UNCHANGED qpc

\* Query._assemblePattern().
AssemblePattern ==
    /\ Call("_assemblePattern")
    /\ Compile(CompileOutcome)
    /\ ~CompileOutcome.exit => qerror' = "none"
    /\ UNCHANGED <<start, order, match, where, returns, limitReturnToWhere,
                   usedNames, sent, outsideQuery>>

\* A pattern handed to results() by the caller, as the web service does.
PatternArgs == {NoText, <<"start n=node(0) return n;">>}

\* _cypherQuery either returns or raises the store's SocketError.
QueryOutcomes == {"none", "SocketError"}

\* Query.results(pattern=...): "if not pattern: pattern =
\* self._assemblePattern()", then one _cypherQuery call.
Results ==
    /\ \E patternArg \in PatternArgs, outcome \in QueryOutcomes :
         IF patternArg # NoText
         THEN /\ Call("results(pattern)")
              /\ sent' = Append(sent, [pattern |-> patternArg,
                                       given |-> TRUE])
              /\ qerror' = outcome
              /\ UNCHANGED <<qpc, pattern, returned, since, pendingOps>>
         ELSE /\ Call("results")
              /\ Compile(CompileOutcome)
              /\ IF CompileOutcome.exit
                 THEN UNCHANGED sent
                 ELSE /\ sent' = Append(sent, [pattern |-> CompileOutcome.text,
                                               given |-> FALSE])
                      /\ qerror' = outcome
    /\ UNCHANGED <<start, order, match, where, returns, limitReturnToWhere,
                   usedNames, outsideQuery>>

-----------------------------------------------------------------------------
(* Paging: results(minRow, limit) over consecutive windows *)

MaxAnchor == 2

\* A result row: the identity of the start entity the pattern orders by,
\* and the identity of another entity of the row.
Anchors == 1..MaxAnchor
Others == {1, 2}
ResultRows == [anchor : Anchors, other : Others]
PageLimits == {1, 2}

\* "order by ID(<start entity>)": the orders in which the store may hand
\* out the matching rows.  Rows with the same start entity have no order
\* among them, and every execution of the query orders them anew.
OrderedByAnchor(S) ==
    {o \in Orderings(S) :
        \A i, j \in DOMAIN o : i < j => o[i].anchor <= o[j].anchor}

\* "skip {minRow} limit {maxResults}" on the ordered rows.
Window(o, skip, maxResults) ==
    SubSeq(o, skip + 1,
           IF skip + maxResults > Len(o) THEN Len(o) ELSE skip + maxResults)

\* One q.results(minRow, limit) of a client that adds limit to minRow after
\* every response, until a response is empty.
ResultsPage ==
    /\ ppc = "paging"
    /\ \E o \in OrderedByAnchor(storeRows) :
         LET data == Window(o, pageMinRow, pageLimit)
         IN IF data = <<>>
            THEN /\ ppc' = "done"
                 /\ UNCHANGED <<fetched, pageMinRow>>
            ELSE /\ fetched' = fetched \o data
                 /\ pageMinRow' = pageMinRow + pageLimit
                 /\ UNCHANGED ppc
    /\ UNCHANGED <<storeRows, pageLimit, outsidePages>>

-----------------------------------------------------------------------------
(* Reconstruction: music21Score over the remote store *)

MaxMeasure == 3
MaxRow == 2

\* The remote store holds one Score of two Parts, both in one StaffGroup.
\* A Measure is known by its Part and its number, a Note by its Measure and
\* its place in it, and the first Note of every Measure carries a Beam.
PartNumbers == {1, 2}
NoteIndexes == {1, 2}

RemoteNode(t, p, k, j) == [type |-> t, part |-> p, number |-> k, index |-> j]
ScoreNode == RemoteNode("Score", 0, 0, 0)
StaffGroupNode == RemoteNode("StaffGroup", 0, 0, 0)
PartNode(p) == RemoteNode("Part", p, 0, 0)
MeasureNode(p, k) == RemoteNode("Measure", p, k, 0)
NoteNode(p, k, j) == RemoteNode("Note", p, k, j)
BeamNode(p, k, j) == RemoteNode("Beam", p, k, j)

AllMeasures == {MeasureNode(p, k) : p \in PartNumbers, k \in 1..MaxMeasure}

\* The stores of the model: every Measure of Part 1, and every Measure of
\* Part 2 but at most one.
Stores ==
    {AllMeasures} \cup {AllMeasures \ {MeasureNode(2, k)} : k \in 1..MaxMeasure}

NotesOf(m) == {NoteNode(m.part, m.number, j) : j \in NoteIndexes}
BeamsOf(n) ==
    IF n.type = "Note" /\ n.index = 1
    THEN {BeamNode(n.part, n.number, n.index)} ELSE {}

\* The object a node is contained in.
ParentOf(n) ==
    CASE n.type = "Beam" -> NoteNode(n.part, n.number, n.index)
      [] n.type = "Note" -> MeasureNode(n.part, n.number)
      [] n.type = "Measure" -> PartNode(n.part)
      [] OTHER -> ScoreNode

\* The relationship from a node to the object it is contained in.
RelationOf(n) ==
    [type |-> n.type \o "In" \o ParentOf(n).type, start |-> n, end |-> ParentOf(n)]

\* The relationship from a Part to the StaffGroup.
PartInStaffGroup(p) ==
    [type |-> "PartInStaffGroup", start |-> PartNode(p), end |-> StaffGroupNode]

\* The relationships of a store.
StoreRelations(store) ==
    LET notes0 == UNION {NotesOf(m) : m \in store}
        beams == UNION {BeamsOf(n) : n \in notes0}
        parts == {PartNode(p) : p \in PartNumbers}
    IN {RelationOf(n) :
           n \in beams \cup notes0 \cup store \cup parts \cup {StaffGroupNode}}
         \cup {PartInStaffGroup(p) : p \in PartNumbers}

\* Database.listRelationshipTypes
RelationshipTypes ==
    {"BeamInNote", "NoteInMeasure", "MeasureInPart", "PartInScore",
     "StaffGroupInScore", "PartInStaffGroup"}

\* isinstance(item, py2neo.neo4j.Node)
IsNode(item) == "index" \in DOMAIN item
IsNote(item) == IsNode(item) /\ item.type = "Note"

\* The rows a query may have returned: Notes of the store, and with them a
\* Measure or a relationship, in any column.
RowItems(store) ==
    UNION {NotesOf(m) : m \in store}
        \cup {MeasureNode(1, 1), RelationOf(NoteNode(1, 1, 1))}
Rows(store) == UNION {[1..n -> RowItems(store)] : n \in 1..MaxRow}

\* The column names of a row, by position.
ColumnName(i) == "column" \o ToString(i)
Columns(row) == [i \in DOMAIN row |-> ColumnName(i)]

EmptySet == [nodes |-> {}, relations |-> {}]

\* _filterNodesAndRelationships: merge by remote identity.
FilterNodesAndRelationships(items, ws) ==
    [nodes |-> ws.nodes \cup {x \in items : IsNode(x)},
     relations |-> ws.relations \cup {x \in items : ~IsNode(x)}]

\* The row of the query Note -> Measure -> Part -> Score for one Note.
ClosureRow(n) ==
    {n, RelationOf(n),
     ParentOf(n), RelationOf(ParentOf(n)),
     ParentOf(ParentOf(n)), RelationOf(ParentOf(ParentOf(n))),
     ScoreNode}

\* The names the loop over results leaves on the objects held in nodes: the
\* object of a Note is the first of the list with that identity, and the
\* i-th object of the list is named metadata[i].
FirstIndex(list, x) ==
    CHOOSE i \in DOMAIN list :
        list[i] = x /\ \A j \in DOMAIN list : list[j] = x => i <= j

NamesGiven(list, meta) ==
    [x \in Range(list) |-> meta[FirstIndex(list, x)]]

NumbersOf(ns) == {m.number : m \in {x \in ns : x.type = "Measure"}}
SetMax(S) == CHOOSE x \in S : \A y \in S : y <= x

\* measureRange
MeasureRangeMatchedOnly(ns) == NumbersOf(ns)
MeasureRange(ns) == SetMin(NumbersOf(ns))..SetMax(NumbersOf(ns))

\* The Measures the second query asks for: for every Part of the working
\* set, one Measure for every number of measureRange.
SiblingFillPerPart(ns) ==
    UNION {{MeasureNode(p.part, k) :
               k \in MeasureRange({x \in ns : x.part = p.part})} :
           p \in {x \in ns : x.type = "Part"}}
SiblingFill(ns) ==
    {MeasureNode(p.part, k) :
        p \in {x \in ns : x.type = "Part"},
        k \in MeasureRange(ns)}

\* The first row of the second query: the Score, its StaffGroup, and the
\* Parts of the working set with the Measures asked for.
FillRow(ns) ==
    LET parts == {x \in ns : x.type = "Part"}
    IN {ScoreNode, StaffGroupNode, RelationOf(StaffGroupNode)}
         \cup parts \cup {RelationOf(p) : p \in parts}
         \cup SiblingFill(ns) \cup {RelationOf(m) : m \in SiblingFill(ns)}

\* _addChildren(node, rType) for every node of a set and every type of a
\* set: every row holds the node, a relationship that ends in it, and the
\* start of that relationship.
AddChildren(store, parents, rTypes, ws) ==
    LET found == {r \in StoreRelations(store) :
                     r.end \in parents /\ r.type \in rTypes}
    IN FilterNodesAndRelationships(
           found \cup {r.start : r \in found} \cup {r.end : r \in found}, ws)

\* "Fill in the other notes in the measures."
LeafFill(store, ws) ==
    AddChildren(store, {x \in ws.nodes : x.type = "Measure"},
                {"NoteInMeasure", "RestInMeasure"}, ws)

\* "Add one more layer of objects below the existing ones."
OneMoreLayer(store, ws) ==
    AddChildren(store, ws.nodes,
                RelationshipTypes \
                    {"NoteInMeasure", "MomentInScore", "PartInScore", "MeasureInPart"},
                ws)

\* The part of _addHierarchicalNodes under "if (buildFullScore)".
FullScoreAlways(store, full, ws) ==
    IF full THEN OneMoreLayer(store, LeafFill(store, ws)) ELSE LeafFill(store, ws)
FullScore(store, full, ws) ==
    IF full THEN OneMoreLayer(store, LeafFill(store, ws)) ELSE ws

\* _addHierarchicalNodes(results, metadata, buildFullScore) on a store.  The
\* call raises when results is empty (min of an empty list) and when the
\* second query matches nothing (subresults[0]), which it does when a Part
\* has no Measure of some number of measureRange.
AddHierarchicalNodesOf(store, list, meta, full) ==
    LET given == FilterNodesAndRelationships(Range(list), EmptySet)
        closed == FilterNodesAndRelationships(
                      UNION {ClosureRow(list[i]) : i \in DOMAIN list}, given)
    IN IF list = <<>> \/ ~(SiblingFill(closed.nodes) \subseteq store)
       THEN [raised |-> TRUE, ws |-> closed, names |-> <<>>]
       ELSE [raised |-> FALSE,
             ws |-> FullScore(store, full,
                        FilterNodesAndRelationships(FillRow(closed.nodes), closed)),
             names |-> NamesGiven(list, meta)]

\* The construction callbacks that return None.
ReturnsNone(rType) == rType \in {"BeamInNote", "PartInStaffGroup", "spannerTo"}

\* rType.endswith('In' + parentType)
EndsWithIn(rType, parentType) ==
    \E childType \in {"StaffGroup", "Part", "Measure", "Note", "Beam"} :
        rType = childType \o "In" \o parentType

EmptyBuild == [inserted |-> {}, visited |-> {}, lookup |-> {}]

\* What the visits of one parent register in nodeLookup: built are the
\* children the callback returned, nulls those it returned None for.
RegisteredBeforeNullCheck(built, nulls) == built \cup nulls
Registered(built, nulls) == built

\* _addHierarchicalMusic21Data below a set of rebuilt parents, each known
\* with the type of the relationship it was built under.
RECURSIVE AddHierarchicalData(_, _, _)
AddHierarchicalData(parents, rels, acc) ==
    LET visits == {v \in [relation : rels, under : {f.under : f \in parents}] :
                      /\ [node |-> v.relation.end, under |-> v.under] \in parents
                      /\ EndsWithIn(v.relation.type, v.relation.end.type)}
        kept == {v \in visits : ~ReturnsNone(v.relation.type)}
        built == {v.relation.start : v \in kept}
        nulls == {v.relation.start : v \in visits \ kept}
    IN IF visits = {} THEN acc
       ELSE AddHierarchicalData(
                {[node |-> v.relation.start, under |-> v.relation.type] : v \in kept},
                rels,
                [inserted |-> acc.inserted \cup built,
                 visited |-> acc.visited \cup visits,
                 lookup |-> acc.lookup \cup Registered(built, nulls)])

\* Query.music21Score(resultList, metadata), up to the return of
\* _addHierarchicalNodes.
Music21Score ==
    /\ rpc = "idle"
    /\ \E row \in Rows(remoteScore) :
         LET list == SelectSeq(row, IsNote)
             out == AddHierarchicalNodesOf(remoteScore, list, Columns(row), TRUE)
         IN /\ resultList' = row
            /\ metadata' = Columns(row)
            /\ resultNotes' = list
            /\ buildFullScore' = TRUE
            /\ nodes' = out.ws.nodes
            /\ relations' = out.ws.relations
            /\ queryNames' = out.names
            /\ rpc' = IF out.raised THEN "failed" ELSE "hierarchy"
    /\ nodeLookup' = {}
    /\ UNCHANGED <<remoteScore, inserted, visited, outsideRebuild>>

\* Query.music21Score from the return of _addHierarchicalNodes on: the
\* typed rebuild below the Score.
AddHierarchicalMusic21Data ==
    /\ rpc = "hierarchy"
    /\ LET out == AddHierarchicalData({[node |-> ScoreNode, under |-> "root"]},
                                      relations, EmptyBuild)
       IN /\ inserted' = out.inserted
          /\ visited' = out.visited
          /\ nodeLookup' = out.lookup
    /\ rpc' = "done"
    /\ UNCHANGED <<remoteScore, resultList, metadata, resultNotes, buildFullScore,
                   nodes, relations, queryNames, outsideRebuild>>

\* Query._addHierarchicalNodes(results, metadata, buildFullScore) on a list
\* of Notes.
AddHierarchicalNodes ==
    /\ rpc = "idle"
    /\ \E row \in Rows(remoteScore), full \in BOOLEAN :
         LET out == AddHierarchicalNodesOf(remoteScore, row, Columns(row), full)
         IN /\ \A i \in DOMAIN row : IsNote(row[i])
            /\ resultList' = row
            /\ metadata' = Columns(row)
            /\ resultNotes' = row
            /\ buildFullScore' = full
            /\ nodes' = out.ws.nodes
            /\ relations' = out.ws.relations
            /\ queryNames' = out.names
            /\ rpc' = IF out.raised THEN "failed" ELSE "filled"
    /\ UNCHANGED <<remoteScore, inserted, visited, nodeLookup, outsideRebuild>>

-----------------------------------------------------------------------------
(* Remote calls under transient connection failures *)

MaxFailures == 8

\* "if attempt > 3" in the results service.
MaxAttempts == 3

\* One execution of the remote call: it returns, or the connection fails
\* and py2neo.rest.SocketError is raised.
Execute(ok) ==
    /\ ok \/ failures < MaxFailures
    /\ failures' = IF ok THEN failures ELSE failures + 1
    /\ tries' = tries + 1

NoCallRunning == cpc \in {"idle", "returned", "raised"}

\* A call that executes the remote call once and lets SocketError pass.
OneAttempt(path, ok) ==
    /\ callPath' = path
    /\ attempt' = 0
    /\ sleeps' = 0
    /\ ok \/ failures < MaxFailures
    /\ failures' = IF ok THEN failures ELSE failures + 1
    /\ tries' = 1
    /\ cpc' = IF ok THEN "returned" ELSE "raised"

\* _serverCall(func, *args): the loop returns from its first iteration.
ServerCall ==
    /\ NoCallRunning
    /\ \E ok \in BOOLEAN : OneAttempt("_serverCall", ok)
    /\ UNCHANGED outsideRemote

\* Query.results: _cypherQuery, which catches AttributeError only.
QueryResults ==
    /\ NoCallRunning
    /\ \E ok \in BOOLEAN : OneAttempt("Query.results", ok)
    /\ UNCHANGED outsideRemote

\* The results service of musicNetServer.
ServerGetResults ==
    /\ NoCallRunning
    /\ \E ok \in BOOLEAN : OneAttempt("musicNetServer.results", ok)
    /\ UNCHANGED outsideRemote

\* The results service of musicNetBottle, up to "while True".
GetResults ==
    /\ NoCallRunning
    /\ cpc' = "trying"
    /\ callPath' = "musicNetBottle.results"
    /\ attempt' = 0
    /\ tries' = 0
    /\ sleeps' = 0
    /\ UNCHANGED <<failures, outsideRemote>>

\* One iteration of the loop, up to time.sleep.
GetResultsTry ==
    /\ cpc = "trying"
    /\ \E ok \in BOOLEAN :
         /\ Execute(ok)
         /\ IF ok
            THEN cpc' = "returned" /\ UNCHANGED attempt
            ELSE /\ attempt' = attempt + 1
                 /\ cpc' = IF attempt + 1 > MaxAttempts THEN "raised" ELSE "sleeping"
    /\ UNCHANGED <<callPath, sleeps, outsideRemote>>

\* time.sleep(1)
GetResultsSleep ==
    /\ cpc = "sleeping"
    /\ sleeps' = sleeps + 1
    /\ cpc' = "trying"
    /\ UNCHANGED <<callPath, attempt, tries, failures, outsideRemote>>

-----------------------------------------------------------------------------
(* NodeFarm on its own: writes and reads in any order *)

MaxWrites == 3

FarmHashes == {1, 2}
NoteVertex == [EmptyVertex EXCEPT !.type = "Note"]
PitchedVertex == [EmptyVertex EXCEPT !.type = "Note", !.pitch = TRUE]
NoRead == [op |-> "none", arg |-> 0, limit |-> 0]

\* getNodeFromHash: SELECT * FROM nodeLookup WHERE hash = ?, fetchone, on
\* the flushed table.
FirstWithHash(table, hashVal) ==
    LET found == SelectSeq([i \in DOMAIN table |-> [rowid |-> i, row |-> table[i]]],
                           LAMBDA x : x.row.hash = hashVal)
    IN IF found = <<>> THEN <<>> ELSE <<found[1]>>

GetNodeFromHashUnflushed(f, hashVal) == FirstWithHash(f.nodeLookup, hashVal)
GetNodeFromHash(f, hashVal) == FirstWithHash(FlushBuffer(f).nodeLookup, hashVal)

CanWrite == Len(issued) < MaxWrites

\* nodeFarm.addNode(obj, parent, vertex)
StageNode ==
    /\ CanWrite
    /\ \E obj \in FarmHashes, vertex \in {EmptyVertex, PitchedVertex} :
         /\ farm' = FarmAddNode(farm, obj, "Note", NoHash, vertex)
         /\ issued' = Append(issued,
                Command("insertNode", Hash(obj), NoHash,
                        IF vertex.type = "" THEN NoteVertex ELSE vertex, <<>>))
    /\ UNCHANGED <<lastRead, readResult, outsideFarm>>

\* nodeFarm.updateNode(node, 'vertex', value)
StageUpdate ==
    /\ CanWrite
    /\ \E h \in FarmHashes, value \in {PitchedVertex} :
         /\ farm' = FarmUpdateNode(farm, [hash |-> h], value)
         /\ issued' = Append(issued, Command("updateNode", h, NoHash, value, <<>>))
    /\ UNCHANGED <<lastRead, readResult, outsideFarm>>

\* nodeFarm.addEdge(start, relation, end)
StageEdge ==
    /\ CanWrite
    /\ \E s \in FarmHashes, e \in FarmHashes :
         /\ s # e
         /\ farm' = FarmAddEdge(farm, s, "NoteInMeasure", e)
         /\ issued' = Append(issued,
                Command("insertEdge", s, e, EmptyVertex, "NoteInMeasure"))
    /\ UNCHANGED <<lastRead, readResult, outsideFarm>>

\* nodeFarm.getNodeFromHash(hashVal)
ReadNodeFromHash ==
    /\ \E h \in FarmHashes :
         /\ readResult' = GetNodeFromHash(farm, h)
         /\ lastRead' = [op |-> "getNodeFromHash", arg |-> h, limit |-> 1]
    /\ farm' = FlushBuffer(farm)
    /\ UNCHANGED <<issued, outsideFarm>>

\* nodeFarm.getNodeBatch(startIdx, limit)
ReadNodeBatch ==
    /\ \E startIdx \in {0, 2}, n \in {batchSize} :
         /\ readResult' = GetNodeBatch(farm, startIdx, n)
         /\ lastRead' = [op |-> "getNodeBatch", arg |-> startIdx, limit |-> n]
    /\ farm' = FlushBuffer(farm)
    /\ UNCHANGED <<issued, outsideFarm>>

\* nodeFarm.getEdgeBatch(startIdx, limit)
ReadEdgeBatch ==
    /\ \E startIdx \in {0}, n \in {1, batchSize} :
         /\ readResult' = GetEdgeBatch(farm, startIdx, n)
         /\ lastRead' = [op |-> "getEdgeBatch", arg |-> startIdx, limit |-> n]
    /\ farm' = FlushBuffer(farm)
    /\ UNCHANGED <<issued, outsideFarm>>

-----------------------------------------------------------------------------
(* NodeFarm under a long run of writes: the buffer passes its threshold *)

MaxBulk == 1003

\* A run repeats the kind of call it began with.
RunOf(op) ==
    /\ Len(issued) < MaxBulk
    /\ IF issued = <<>> THEN TRUE ELSE issued[Len(issued)].op = op

\* nodeFarm.addNode(obj, parent), one new object per call
BulkAddNode ==
    /\ RunOf("insertNode")
    /\ LET obj == Len(issued) + 1
       IN /\ farm' = FarmAddNode(farm, obj, "Note", NoHash, EmptyVertex)
          /\ issued' = Append(issued,
                 Command("insertNode", Hash(obj), NoHash, NoteVertex, <<>>))
    /\ UNCHANGED <<lastRead, readResult, outsideFarm>>

\* nodeFarm.updateNode(node, 'vertex', value)
BulkUpdateNode ==
    /\ RunOf("updateNode")
    /\ farm' = FarmUpdateNode(farm, [hash |-> 1], PitchedVertex)
    /\ issued' = Append(issued,
           Command("updateNode", 1, NoHash, PitchedVertex, <<>>))
    /\ UNCHANGED <<lastRead, readResult, outsideFarm>>

\* nodeFarm.addEdge(start, relation, end)
BulkAddEdge ==
    /\ RunOf("insertEdge")
    /\ LET s == Len(issued) + 2
       IN /\ farm' = FarmAddEdge(farm, s, "NoteInMeasure", 1)
          /\ issued' = Append(issued,
                 Command("insertEdge", s, 1, EmptyVertex, "NoteInMeasure"))
    /\ UNCHANGED <<lastRead, readResult, outsideFarm>>

\* nodeFarm.flushBuffer(), on a fresh farm, on a farm just flushed, or when
\* the run of writes is over
FlushCall ==
    /\ farm.writeBuffer = <<>> \/ Len(issued) = MaxBulk
    /\ farm' = FlushBuffer(farm)
    /\ lastRead' = [op |-> "flushBuffer", arg |-> Len(farm.writeBuffer),
                    limit |-> 0]
    /\ UNCHANGED <<issued, readResult, outsideFarm>>

-----------------------------------------------------------------------------
(* musicNetServer: query tokens, preview jobs and preview images *)

MaxJobs == 2
MaxTicks == 2

\* "for i in range(multiprocessing.cpu_count())": a worker for each
\* processor, of a machine with two.
CpuCount == 2

\* "if app.tokens[token][2] - time.time() > 1800"
TokenLifetime == 1800

\* time.time(), in seconds; the clock moves in steps of a quarter of an hour
\* and a second.
Now == clock * 901

\* Python values of several types held in one list.
Str(x) == [str |-> x]
List(x) == [list |-> x]
Bool(x) == [bool |-> x]
Num(x) == [num |-> x]

\* "if not v" for a bool or a list.
Truthy(v) == IF "bool" \in DOMAIN v THEN v.bool ELSE v.list # <<>>

\* v as an operand of "-": True is 1 and False is 0.
Number(v) ==
    IF "bool" \in DOMAIN v THEN (IF v.bool THEN 1 ELSE 0) ELSE v.num

\* entry[i] for the zero-based index i of a Python list.
Item(entry, i) == entry[i + 1]

\* The queries a client submits: the names of its Note nodes (its other
\* nodes are Measures and Parts) and makePreviews; no returns are asked.
NoteNames == {<<>>, <<"n1">>, <<"n2">>}
Requests == [notes : NoteNames, makePreviews : BOOLEAN]

\* q._assemblePattern(): the text is settled by the nodes.
PatternOf(req) == req.notes

\* "columns.append(n['name'])" for every Note node; "columns.extend(returns)"
\* adds nothing.
ColumnsOf(req) == req.notes \o <<>>

\* hash(ipAddr + pattern) for the one client address: a value per pattern.
TokenOf(req) ==
    IF req.notes = <<>> THEN 1 ELSE IF req.notes = <<"n1">> THEN 2 ELSE 3
TokenValues == {TokenOf(req) : req \in Requests}

ExpiredError == "That token is invalid or has expired."
NoPreviewsError == "makePreviews was not set in the query submission."

\* expireTokens: the tables the loop can leave.  "del" inside the loop over
\* the dict ends the loop with RuntimeError after the first removal.
ExpireTokens(tks, now) ==
    LET old == {t \in DOMAIN tks :
                  Number(Item(tks[t], 2)) - now > TokenLifetime}
    IN IF old = {} THEN {tks}
       ELSE {[t \in (DOMAIN tks) \ {o} |-> tks[t]] : o \in old}

NoResponse ==
    [service |-> "", token |-> 0, error |-> "", items |-> <<>>,
     makePreviews |-> FALSE]

WorkerIdle == [state |-> "idle"]
WorkerDead == [state |-> "dead"]

\* time passes
Tick ==
    /\ clock < MaxTicks
    /\ clock' = clock + 1
    /\ UNCHANGED <<tokens, images, inQueue, outQueue, workers, jobsMade,
                   produced, delivered, response, lastExpiry, issuedAt,
                   outsideServer>>

\* prepareQuery: POST /submitquery
SubmitQuery ==
    /\ \E req \in Requests :
         LET tk == TokenOf(req)
             entry == <<Str(PatternOf(req)), List(ColumnsOf(req)),
                        Bool(req.makePreviews), Num(Now)>>
             put == [t \in (DOMAIN tokens) \cup {tk} |->
                       IF t = tk THEN entry ELSE tokens[t]]
         IN /\ tokens' \in ExpireTokens(put, Now)
            /\ issuedAt' = [t \in (DOMAIN issuedAt) \cup {tk} |->
                              IF t = tk
                              THEN [at |-> Now,
                                    makePreviews |-> req.makePreviews]
                              ELSE issuedAt[t]]
            /\ response' = [NoResponse EXCEPT !.service = "submitquery",
                                              !.token = tk]
    /\ lastExpiry' = Now
    /\ UNCHANGED <<images, inQueue, outQueue, workers, clock, jobsMade,
                   produced, delivered, outsideServer>>

\* results: GET /getresults for a query with n rows.  The objects of a
\* job are the Nodes of the row whose names are in columns: the Notes.
ResultsService ==
    /\ \E tk \in TokenValues, n \in 1..2 :
         IF tk \notin DOMAIN tokens
         THEN /\ response' = [NoResponse EXCEPT !.service = "getresults",
                                !.token = tk, !.error = ExpiredError]
              /\ UNCHANGED <<tokens, inQueue, jobsMade, lastExpiry>>
         ELSE LET columns == Item(tokens[tk], 1).list
                  previews == Item(tokens[tk], 2)
                  jobs == [i \in 1..n |->
                             [index |-> i - 1, result |-> columns,
                              token |-> tk, id |-> jobsMade + i]]
              IN /\ Truthy(previews) => jobsMade + n <= MaxJobs
                 /\ inQueue' = IF Truthy(previews)
                               THEN inQueue \o jobs ELSE inQueue
                 /\ jobsMade' = IF Truthy(previews)
                                THEN jobsMade + n ELSE jobsMade
                 /\ tokens' \in ExpireTokens(tokens, Now)
                 /\ lastExpiry' = Now
                 /\ response' = [NoResponse EXCEPT
                                   !.service = "getresults", !.token = tk]
    /\ UNCHANGED <<images, outQueue, workers, clock, produced, delivered,
                   issuedAt, outsideServer>>

\* GeneratePreviews.run: "scoreDict = self.inQueue.get_nowait()"
WorkerGet ==
    /\ inQueue # <<>>
    /\ \E w \in DOMAIN workers :
         /\ workers[w] = WorkerIdle
         /\ workers' = [workers EXCEPT
                          ![w] = [state |-> "busy", job |-> Head(inQueue)]]
    /\ inQueue' = Tail(inQueue)
    /\ UNCHANGED <<tokens, images, outQueue, clock, jobsMade, produced,
                   delivered, response, lastExpiry, issuedAt, outsideServer>>

\* GeneratePreviews.run: music21Score, makePreview, "self.outQueue.put".
\* music21Score ends with IndexError when the result holds no Note (no
\* Score node is found), and the worker process ends with it.
WorkerPut ==
    /\ \E w \in DOMAIN workers :
         /\ workers[w].state = "busy"
         /\ LET job == workers[w].job
                imageDict == [index |-> job.index, path |-> job.id,
                              token |-> job.token]
            IN IF job.result = <<>>
               THEN /\ workers' = [workers EXCEPT ![w] = WorkerDead]
                    /\ UNCHANGED <<outQueue, produced>>
               ELSE /\ workers' = [workers EXCEPT ![w] = WorkerIdle]
                    /\ outQueue' = Append(outQueue, imageDict)
                    /\ produced' = produced \cup {imageDict}
    /\ UNCHANGED <<tokens, images, inQueue, clock, jobsMade, delivered,
                   response, lastExpiry, issuedAt, outsideServer>>

\* addImage(imageDict)
AddImageReplaces(imgs, imageDict) ==
    [t \in (DOMAIN imgs) \cup {imageDict.token} |->
        IF t = imageDict.token THEN <<imageDict>> ELSE imgs[t]]
AddImage(imgs, imageDict) ==
    IF imageDict.token \in DOMAIN imgs
    THEN [imgs EXCEPT ![imageDict.token] = Append(@, imageDict)]
    ELSE [t \in (DOMAIN imgs) \cup {imageDict.token} |->
            IF t = imageDict.token THEN <<imageDict>> ELSE imgs[t]]

\* "while True: imageDict = outQueue.get_nowait() ... addImage(imageDict)"
RECURSIVE Drain(_, _)
Drain(imgs, queue) ==
    IF queue = <<>> THEN imgs
    ELSE Drain(AddImage(imgs, Head(queue)), Tail(queue))

\* The bag of returned records with the records of one response added:
\* every record with the token asked, and the times it has been returned.
Returned(bag, records, tk) ==
    LET new == {[imageDict |-> records[i], token |-> tk] :
                   i \in DOMAIN records}
    IN [d \in (DOMAIN bag) \cup new |->
          (IF d \in DOMAIN bag THEN bag[d] ELSE 0)
          + Cardinality({i \in DOMAIN records :
                           d = [imageDict |-> records[i], token |-> tk]})]

\* getImage: GET /getimages; with block set the handler first waits for a
\* record on outQueue.
GetImages ==
    /\ \E tk \in TokenValues, block \in BOOLEAN :
         IF tk \notin DOMAIN tokens
         THEN /\ response' = [NoResponse EXCEPT !.service = "getimages",
                                !.token = tk, !.error = ExpiredError]
              /\ UNCHANGED <<tokens, images, outQueue, delivered, lastExpiry>>
         ELSE LET makePreviews == Item(tokens[tk], 1)
              IN IF ~Truthy(makePreviews)
                 THEN /\ response' = [NoResponse EXCEPT
                                        !.service = "getimages",
                                        !.token = tk,
                                        !.error = NoPreviewsError,
                                        !.makePreviews =
                                            issuedAt[tk].makePreviews]
                      /\ UNCHANGED <<tokens, images, outQueue, delivered,
                                     lastExpiry>>
                 ELSE LET drained == Drain(images, outQueue)
                          mine == IF tk \in DOMAIN drained
                                  THEN drained[tk] ELSE <<>>
                      IN /\ block => outQueue # <<>>
                         /\ outQueue' = <<>>
                         /\ images' = [t \in (DOMAIN drained) \ {tk} |->
                                          drained[t]]
                         /\ delivered' = Returned(delivered, mine, tk)
                         /\ tokens' \in ExpireTokens(tokens, Now)
                         /\ lastExpiry' = Now
                         /\ response' = [NoResponse EXCEPT
                                           !.service = "getimages",
                                           !.token = tk, !.items = mine,
                                           !.makePreviews =
                                               issuedAt[tk].makePreviews]
    /\ UNCHANGED <<inQueue, workers, clock, jobsMade, produced, issuedAt,
                   outsideServer>>

-----------------------------------------------------------------------------
(* Database.wipeDatabase and Database.listRelationshipTypes *)

wipeVars == <<wpc, storeRels, storeNodes, referenceNode, relsDeleted,
              nodesDeleted>>

listVars == <<lpc, storeTypes, rTypesAttr, relateTypes, collected,
              listResult, firstResult, listCalls, queriedInCall>>

\* "results, meta = q.results(limit=100)"
WipeLimit == 100

\* The numbers of relationships and of typed nodes a store is wiped with:
\* none, one, a full window of results, and more than one and two windows.
StoreSizes == {0, 1, WipeLimit, WipeLimit + 1, 2 * WipeLimit + 1}

\* q.results(limit=100) for a Query started on the type index with "*": the
\* rows from row 0 on, one for every listed relationship (or typed node), up
\* to the limit.  The number of rows.
ListedResultsNone(listed, limit) == 0
ListedResults(listed, limit) == IF listed < limit THEN listed ELSE limit

\* db.wipeDatabase(): "q = Query(self); q.setStartRelationship()"
WipeDatabase ==
    /\ wpc = "idle"
    /\ wpc' = "countRelationships"
    /\ UNCHANGED <<storeRels, storeNodes, referenceNode, relsDeleted,
                   nodesDeleted, listVars, outsideStore>>

\* "while (_serverCall(self.graph_db.get_relationship_count)):"; after the
\* loop, "q = Query(self); q.setStartNode()".
CountRelationships ==
    /\ wpc = "countRelationships"
    /\ wpc' = IF storeRels # 0 THEN "deleteRelationships" ELSE "countNodes"
    /\ UNCHANGED <<storeRels, storeNodes, referenceNode, relsDeleted,
                   nodesDeleted, listVars, outsideStore>>

\* The body of the first loop: the rows of q.results(limit=100) are deleted.
DeleteRelationships ==
    /\ wpc = "deleteRelationships"
    /\ LET n == ListedResults(storeRels, WipeLimit)
       IN /\ storeRels' = storeRels - n
          /\ relsDeleted' = relsDeleted + n
    /\ wpc' = "countRelationships"
    /\ UNCHANGED <<storeNodes, referenceNode, nodesDeleted, listVars,
                   outsideStore>>

\* "while (_serverCall(self.graph_db.get_node_count) > 1):"; the reference
\* node is counted, the index of types does not list it.
CountNodes ==
    /\ wpc = "countNodes"
    /\ wpc' = IF storeNodes + referenceNode > 1 THEN "deleteNodes" ELSE "done"
    /\ UNCHANGED <<storeRels, storeNodes, referenceNode, relsDeleted,
                   nodesDeleted, listVars, outsideStore>>

\* The body of the second loop.
DeleteNodes ==
    /\ wpc = "deleteNodes"
    /\ LET n == ListedResults(storeNodes, WipeLimit)
       IN /\ storeNodes' = storeNodes - n
          /\ nodesDeleted' = nodesDeleted + n
    /\ wpc' = "countNodes"
    /\ UNCHANGED <<storeRels, referenceNode, relsDeleted, listVars,
                   outsideStore>>

\* _serverCall or _cypherQuery raises: the connection failed.
WipeCallFails ==
    /\ wpc \in {"countRelationships", "deleteRelationships", "countNodes",
                "deleteNodes"}
    /\ wpc' = "raised"
    /\ UNCHANGED <<storeRels, storeNodes, referenceNode, relsDeleted,
                   nodesDeleted, listVars, outsideStore>>

\* The kinds of relationship a store can hold: start type, type, end type.
Triples ==
    {<<"Note", "NoteInMeasure", "Measure">>,
     <<"Rest", "NoteInMeasure", "Measure">>,
     <<"Measure", "MeasureInPart", "Part">>,
     <<"Part", "PartInScore", "Score">>}

MaxListCalls == 2

Unset == [has |-> FALSE, value |-> <<>>]

\* db.listRelationshipTypes(), up to "relateTypes = []".
ListRelationshipTypes ==
    /\ lpc \in {"idle", "returned"}
    /\ listCalls < MaxListCalls
    /\ listCalls' = listCalls + 1
    /\ queriedInCall' = FALSE
    /\ IF rTypesAttr.has
       THEN /\ listResult' = rTypesAttr.value
            /\ lpc' = "returned"
            /\ UNCHANGED <<rTypesAttr, relateTypes, collected>>
       ELSE /\ rTypesAttr' = [has |-> TRUE, value |-> <<>>]
            /\ relateTypes' = <<>>
            /\ collected' = {}
            /\ lpc' = "distinct"
            /\ UNCHANGED listResult
    /\ UNCHANGED <<storeTypes, firstResult, wipeVars, outsideStore>>

\* One round of "while not relateTypes:": START r=relationship(*) RETURN
\* DISTINCT TYPE(r), the rows in the order the store gives them.
DistinctTypes ==
    /\ lpc = "distinct"
    /\ \E rows \in Orderings({t[2] : t \in storeTypes}) :
         /\ relateTypes' = rows
         /\ lpc' = IF rows = <<>> THEN "distinct" ELSE "perType"
    /\ queriedInCall' = TRUE
    /\ UNCHANGED <<storeTypes, rTypesAttr, collected, listResult,
                   firstResult, listCalls, wipeVars, outsideStore>>

\* One round of "for relateType in relateTypes:": the start and end types
\* of the relationships of that type.
TypeEnds ==
    /\ lpc = "perType"
    /\ LET relateType == Head(relateTypes)
       IN collected' = collected \cup {t \in storeTypes : t[2] = relateType}
    /\ relateTypes' = Tail(relateTypes)
    /\ lpc' = IF Tail(relateTypes) = <<>> THEN "append" ELSE "perType"
    /\ UNCHANGED <<storeTypes, rTypesAttr, listResult, firstResult,
                   listCalls, queriedInCall, wipeVars, outsideStore>>

\* "for start, r, end in rTypes: self.rTypes.append(...)", in the order the
\* set happens to iterate, and "return self.rTypes".
ListReturns ==
    /\ lpc = "append"
    /\ \E rows \in Orderings(collected) :
         /\ rTypesAttr' = [has |-> TRUE, value |-> rows]
         /\ listResult' = rows
         /\ firstResult' = rows
    /\ lpc' = "returned"
    /\ UNCHANGED <<storeTypes, relateTypes, collected, listCalls,
                   queriedInCall, wipeVars, outsideStore>>

-----------------------------------------------------------------------------
(* previews.py: preview workers on the redis lists inQueue and outQueue *)

\* Jobs the clients push in a run.
MaxPushed == 3

\* "default=multiprocessing.cpu_count()"
workerCount == CpuCount

NotStarted == [state |-> "none", job |-> <<>>]
Alive == [state |-> "alive", job |-> <<>>]
Dead == [state |-> "dead", job |-> <<>>]

\* A client of the pool pushes a pickled scoreDict onto inQueue; the result
\* it holds can be rebuilt into a score (a Score row) or not (no row).
PushJob ==
    /\ pushedJobs < MaxPushed
    /\ \E result \in {<<>>, <<"Score">>} :
         redisIn' = Append(redisIn, [id |-> pushedJobs + 1, index |-> 0,
                                     token |-> 1, result |-> result])
    /\ pushedJobs' = pushedJobs + 1
    /\ UNCHANGED <<redisOut, previewWorkers, pops, outsidePool>>

\* GeneratePreviews.__init__: "while self.redis.lpop('inQueue'): pass".
\* The jobs the constructor pops, and who popped them.
InitPops(queue) ==
    {[id |-> queue[i].id, by |-> "__init__"] : i \in DOMAIN queue}

\* newWorker(): construct a worker and start it.
NewWorker(i) ==
    /\ pops' = pops \cup InitPops(redisIn)
    /\ redisIn' = <<>>
    /\ previewWorkers' = [previewWorkers EXCEPT ![i] = Alive]

\* "for i in range(workerCount): previewWorkers.append(newWorker())"
StartWorker ==
    /\ \E i \in 1..workerCount :
         /\ previewWorkers[i] = NotStarted
         /\ \A k \in 1..(i - 1) : previewWorkers[k] # NotStarted
         /\ NewWorker(i)
    /\ UNCHANGED <<redisOut, pushedJobs, outsidePool>>

\* The main loop: "if not previewWorkers[i].is_alive(): ...terminate();
\* previewWorkers[i] = newWorker()"
ReplaceWorker ==
    /\ \A k \in 1..workerCount : previewWorkers[k] # NotStarted
    /\ \E i \in 1..workerCount :
         /\ previewWorkers[i] = Dead
         /\ NewWorker(i)
    /\ UNCHANGED <<redisOut, pushedJobs, outsidePool>>

\* GeneratePreviews.run: "val = self.redis.lpop('inQueue')" with a job in
\* the list; with an empty list the worker sleeps and asks again.
WorkerPop ==
    /\ redisIn # <<>>
    /\ \E i \in 1..workerCount :
         /\ previewWorkers[i] = Alive
         /\ previewWorkers' =
               [previewWorkers EXCEPT ![i] = [state |-> "alive",
                                              job |-> <<Head(redisIn)>>]]
         /\ pops' = pops \cup {[id |-> Head(redisIn).id, by |-> "run"]}
    /\ redisIn' = Tail(redisIn)
    /\ UNCHANGED <<redisOut, pushedJobs, outsidePool>>

\* GeneratePreviews.run: music21Score, makePreview and
\* "self.redis.rpush('outQueue', pickle.dumps(imageDict))"; music21Score
\* raises on a result without Score row and the process ends.
WorkerPush ==
    /\ \E i \in 1..workerCount :
         /\ previewWorkers[i].state = "alive"
         /\ previewWorkers[i] # Alive
         /\ LET scoreDict == previewWorkers[i].job[1]
                imageDict == [index |-> scoreDict.index, path |-> scoreDict.id,
                              token |-> scoreDict.token]
            IN IF scoreDict.result = <<>>
               THEN /\ previewWorkers' = [previewWorkers EXCEPT ![i] = Dead]
                    /\ UNCHANGED redisOut
               ELSE /\ previewWorkers' = [previewWorkers EXCEPT ![i] = Alive]
                    /\ redisOut' = Append(redisOut, imageDict)
    /\ UNCHANGED <<redisIn, pushedJobs, pops, outsidePool>>

-----------------------------------------------------------------------------
(* Specifications *)

\* No worker process has been started, the redis lists are empty.
PoolIdle ==
    /\ redisIn = <<>>
    /\ redisOut = <<>>
    /\ previewWorkers = [i \in 1..workerCount |-> NotStarted]
    /\ pushedJobs = 0
    /\ pops = {}


WipeIdle ==
    /\ wpc = "idle"
    /\ relsDeleted = 0
    /\ nodesDeleted = 0

ListIdle ==
    /\ lpc = "idle"
    /\ rTypesAttr = Unset
    /\ relateTypes = <<>>
    /\ collected = {}
    /\ listResult = <<>>
    /\ firstResult = <<>>
    /\ listCalls = 0
    /\ queriedInCall = FALSE

\* A new store: the reference node and nothing else.
StoreIdle ==
    /\ WipeIdle
    /\ ListIdle
    /\ storeRels = 0
    /\ storeNodes = 0
    /\ referenceNode = 1
    /\ storeTypes = {}

ServerIdle ==
    /\ tokens = <<>>
    /\ images = <<>>
    /\ inQueue = <<>>
    /\ outQueue = <<>>
    /\ workers = [w \in 1..CpuCount |-> WorkerIdle]
    /\ clock = 0
    /\ jobsMade = 0
    /\ produced = {}
    /\ delivered = <<>>
    /\ response = NoResponse
    /\ lastExpiry = 0
    /\ issuedAt = <<>>

FarmIdle ==
    /\ issued = <<>>
    /\ lastRead = NoRead
    /\ readResult = <<>>

RemoteIdle ==
    /\ cpc = "idle"
    /\ callPath = "none"
    /\ attempt = 0
    /\ tries = 0
    /\ sleeps = 0
    /\ failures = 0

RebuildIdle ==
    /\ rpc = "done"
    /\ remoteScore = {}
    /\ resultList = <<>>
    /\ metadata = <<>>
    /\ resultNotes = <<>>
    /\ buildFullScore = FALSE
    /\ nodes = {}
    /\ relations = {}
    /\ queryNames = <<>>
    /\ inserted = {}
    /\ visited = {}
    /\ nodeLookup = {}

MomentsIdle ==
    /\ mpc = "done"
    /\ notes = <<>>
    /\ attackOffsets = <<>>
    /\ releaseOffsets = {}
    /\ releaseLookup = <<>>
    /\ moments = <<>>
    /\ extracted = 0
    /\ momentEdges = <<>>

IngestIdle ==
    /\ ipc = "idle"
    /\ callbacks = DefaultCallbacks
    /\ score = NoScore
    /\ farm = EmptyFarm
    /\ maxNodes = 0
    /\ maxEdges = 0
    /\ calls = <<>>
    /\ live = <<>>
    /\ rootNode = NoNode
    /\ pending = <<>>
    /\ nodeRefs = <<>>
    /\ idx = 0
    /\ remoteNodes = <<>>
    /\ remoteEdges = <<>>
    /\ submitted = <<>>
    /\ submittedEdges = <<>>
    /\ failedAt = "none"

PagesIdle ==
    /\ ppc = "done"
    /\ storeRows = {}
    /\ pageLimit = 1
    /\ pageMinRow = 0
    /\ fetched = <<>>

\* Query.__init__.
QueryIdle ==
    /\ qpc = "open"
    /\ start = NoText
    /\ order = NoText
    /\ match = <<>>
    /\ where = <<>>
    /\ returns = <<>>
    /\ limitReturnToWhere = FALSE
    /\ pattern = NoText
    /\ usedNames = <<>>
    /\ qerror = "none"
    /\ sent = <<>>
    /\ ncalls = 0
    /\ lastCall = "none"
    /\ returned = NoText
    /\ since = "first"
    /\ pendingOps = "nothing"

NoteShapes ==
    [moffset : MeasureOffsets, offset : NoteOffsets,
     quarterLength : QuarterLengths, midi : {60}]

\* Two notes of any pitch that start together.
PitchedPairs ==
    [1..2 -> [moffset : {0}, offset : {0}, quarterLength : {1},
              midi : MidiPitches]]

InitMoments ==
    /\ mpc = "sweep"
    /\ \E n \in 0..MaxNotes : notes \in [1..n -> NoteShapes]
    /\ attackOffsets = SetToSortedSeq(DOMAIN AttackLookup(notes))
    /\ releaseOffsets = {}
    /\ releaseLookup = <<>>
    /\ moments = <<>>
    /\ extracted = 0
    /\ momentEdges = <<>>
    /\ IngestIdle
    /\ QueryIdle
    /\ PagesIdle
    /\ RebuildIdle
    /\ RemoteIdle
    /\ FarmIdle
    /\ ServerIdle
    /\ StoreIdle
    /\ PoolIdle

NextMoments == SweepStep \/ SweepDone \/ MomentCallback \/ ExtractDone

SpecMoments == InitMoments /\ [][NextMoments]_vars

\* The sweep and the Moment callback for two simultaneous notes of every
\* pair of pitches.
InitIntervals ==
    /\ mpc = "sweep"
    /\ notes \in PitchedPairs
    /\ attackOffsets = SetToSortedSeq(DOMAIN AttackLookup(notes))
    /\ releaseOffsets = {}
    /\ releaseLookup = <<>>
    /\ moments = <<>>
    /\ extracted = 0
    /\ momentEdges = <<>>
    /\ IngestIdle
    /\ QueryIdle
    /\ PagesIdle
    /\ RebuildIdle
    /\ RemoteIdle
    /\ FarmIdle
    /\ ServerIdle
    /\ StoreIdle
    /\ PoolIdle

SpecIntervals == InitIntervals /\ [][NextMoments]_vars

InitIngest ==
    /\ IngestIdle /\ MomentsIdle /\ QueryIdle /\ PagesIdle /\ RebuildIdle
    /\ RemoteIdle /\ FarmIdle
    /\ ServerIdle
    /\ StoreIdle
    /\ PoolIdle

NextIngest ==
    \/ AddPropertyCallback
    \/ AddScore
    \/ ExtractItem
    \/ ExtractReturns
    \/ WriteNodesBatch
    \/ WriteEdgesBatch
    \/ ServerCallFails

SpecIngest == InitIngest /\ [][NextIngest]_vars

\* addScore for scores that fill more than one commit batch, with the
\* callbacks of a new Database.
NextCommit ==
    \/ AddWideScore
    \/ ExtractItem
    \/ ExtractReturns
    \/ WriteNodesBatch
    \/ WriteEdgesBatch
    \/ ServerCallFails

SpecCommit == InitIngest /\ [][NextCommit]_vars

InitQuery ==
    /\ QueryIdle /\ IngestIdle /\ MomentsIdle /\ PagesIdle /\ RebuildIdle
    /\ RemoteIdle /\ FarmIdle
    /\ ServerIdle
    /\ StoreIdle
    /\ PoolIdle

NextQuery ==
    \/ SetStartNode
    \/ SetStartRelationship
    \/ AddRelationship
    \/ AddComparisonFilter
    \/ AddCypherFilter
    \/ AddReturns
    \/ SetLimitReturnToWhere
    \/ AssemblePattern
    \/ Results

SpecQuery == InitQuery /\ [][NextQuery]_vars

\* A store holding any rows for the pattern, read page by page.
InitPages ==
    /\ ppc = "paging"
    /\ storeRows \in SUBSET ResultRows
    /\ pageLimit \in PageLimits
    /\ pageMinRow = 0
    /\ fetched = <<>>
    /\ MomentsIdle
    /\ IngestIdle
    /\ QueryIdle
    /\ RebuildIdle
    /\ RemoteIdle
    /\ FarmIdle
    /\ ServerIdle
    /\ StoreIdle
    /\ PoolIdle

NextPages == ResultsPage

SpecPages == InitPages /\ [][NextPages]_vars

\* One reconstruction over a store holding one Score.
InitRebuild ==
    /\ rpc = "idle"
    /\ remoteScore \in Stores
    /\ resultList = <<>>
    /\ metadata = <<>>
    /\ resultNotes = <<>>
    /\ buildFullScore = FALSE
    /\ nodes = {}
    /\ relations = {}
    /\ queryNames = <<>>
    /\ inserted = {}
    /\ visited = {}
    /\ nodeLookup = {}
    /\ MomentsIdle
    /\ IngestIdle
    /\ QueryIdle
    /\ PagesIdle
    /\ RemoteIdle
    /\ FarmIdle
    /\ ServerIdle
    /\ StoreIdle
    /\ PoolIdle

NextRebuild ==
    \/ Music21Score
    \/ AddHierarchicalMusic21Data
    \/ AddHierarchicalNodes

SpecRebuild == InitRebuild /\ [][NextRebuild]_vars

\* Calls made one after the other over a connection that may fail.
InitRemote ==
    /\ RemoteIdle
    /\ MomentsIdle
    /\ IngestIdle
    /\ QueryIdle
    /\ PagesIdle
    /\ RebuildIdle
    /\ FarmIdle
    /\ ServerIdle
    /\ StoreIdle
    /\ PoolIdle

NextRemote ==
    \/ ServerCall
    \/ QueryResults
    \/ ServerGetResults
    \/ GetResults
    \/ GetResultsTry
    \/ GetResultsSleep

SpecRemote == InitRemote /\ [][NextRemote]_vars

\* A new NodeFarm, written and read in any order.
InitFarm ==
    /\ FarmIdle
    /\ IngestIdle
    /\ MomentsIdle
    /\ QueryIdle
    /\ PagesIdle
    /\ RebuildIdle
    /\ RemoteIdle
    /\ ServerIdle
    /\ StoreIdle
    /\ PoolIdle

NextFarm ==
    \/ StageNode
    \/ StageUpdate
    \/ StageEdge
    \/ ReadNodeFromHash
    \/ ReadNodeBatch
    \/ ReadEdgeBatch

SpecFarm == InitFarm /\ [][NextFarm]_vars

NextBuffer ==
    \/ BulkAddNode
    \/ BulkUpdateNode
    \/ BulkAddEdge
    \/ FlushCall

SpecBuffer == InitFarm /\ [][NextBuffer]_vars

InitServer ==
    /\ ServerIdle
    /\ MomentsIdle
    /\ IngestIdle
    /\ QueryIdle
    /\ PagesIdle
    /\ RebuildIdle
    /\ RemoteIdle
    /\ FarmIdle
    /\ StoreIdle
    /\ PoolIdle

\* The services while time passes, before any worker has taken a job.
NextTokens ==
    \/ Tick
    \/ SubmitQuery
    \/ ResultsService
    \/ GetImages

SpecTokens == InitServer /\ [][NextTokens]_vars

\* The services and the workers within one quarter of an hour.
NextPreviews ==
    \/ SubmitQuery
    \/ ResultsService
    \/ WorkerGet
    \/ WorkerPut
    \/ GetImages

SpecPreviews == InitServer /\ [][NextPreviews]_vars

\* wipeDatabase on a store of any of the sizes, with or without a
\* reference node; a relationship needs nodes to join.
InitWipe ==
    /\ WipeIdle
    /\ ListIdle
    /\ storeRels \in StoreSizes
    /\ storeNodes \in StoreSizes
    /\ referenceNode \in {0, 1}
    /\ storeRels > 0 => storeNodes > 0
    /\ storeTypes = {}
    /\ MomentsIdle
    /\ IngestIdle
    /\ QueryIdle
    /\ PagesIdle
    /\ RebuildIdle
    /\ RemoteIdle
    /\ FarmIdle
    /\ ServerIdle
    /\ PoolIdle

NextWipe ==
    \/ WipeDatabase
    \/ CountRelationships
    \/ DeleteRelationships
    \/ CountNodes
    \/ DeleteNodes
    \/ WipeCallFails

\* The call runs on: no step of it waits for anything but the store.
SpecWipe == InitWipe /\ [][NextWipe]_vars /\ WF_vars(NextWipe)

\* listRelationshipTypes, called twice on a store that holds any of the
\* kinds of relationship, or none.
InitTypes ==
    /\ WipeIdle
    /\ ListIdle
    /\ storeTypes \in SUBSET Triples
    /\ storeRels = Cardinality(storeTypes)
    /\ storeNodes = Cardinality(UNION {{t[1], t[3]} : t \in storeTypes})
    /\ referenceNode = 1
    /\ MomentsIdle
    /\ IngestIdle
    /\ QueryIdle
    /\ PagesIdle
    /\ RebuildIdle
    /\ RemoteIdle
    /\ FarmIdle
    /\ ServerIdle
    /\ PoolIdle

NextTypes ==
    \/ ListRelationshipTypes
    \/ DistinctTypes
    \/ TypeEnds
    \/ ListReturns

SpecTypes == InitTypes /\ [][NextTypes]_vars /\ WF_vars(NextTypes)

\* The preview pool: clients push jobs before, while and after the workers
\* are started, and dead workers are replaced.
InitPool ==
    /\ PoolIdle
    /\ MomentsIdle
    /\ IngestIdle
    /\ QueryIdle
    /\ PagesIdle
    /\ RebuildIdle
    /\ RemoteIdle
    /\ FarmIdle
    /\ ServerIdle
    /\ StoreIdle

NextPool ==
    \/ PushJob
    \/ StartWorker
    \/ ReplaceWorker
    \/ WorkerPop
    \/ WorkerPush

SpecPool == InitPool /\ [][NextPool]_vars


-----------------------------------------------------------------------------
(* Properties of the sweep *)

Onset(n) == AbsOffset(notes[n])
Release(n) == Onset(n) + notes[n].quarterLength
Leaves == DOMAIN notes
SoundingAt(n, t) == Onset(n) <= t /\ t < Release(n)

\* C1: addMomentsToScore creates one Moment per distinct onset t; its
\* sameOffset is exactly the leaves with onset = t and its simultaneous is
\* exactly the leaves with onset < t < onset + duration (the two disjoint).
C1_SweepSets ==
    /\ \A k \in DOMAIN moments :
         LET t == moments[k].offset
         IN /\ moments[k].sameOffset = {n \in Leaves : Onset(n) = t}
            /\ moments[k].simultaneous =
                  {n \in Leaves : Onset(n) < t /\ t < Release(n)}
            /\ moments[k].sameOffset \cap moments[k].simultaneous = {}
    /\ mpc # "sweep" =>
         /\ Len(moments) = Cardinality({Onset(n) : n \in Leaves})
         /\ \A n \in Leaves : \E k \in DOMAIN moments :
               moments[k].offset = Onset(n)

SimulEdgesBetween(a, b) ==
    {i \in DOMAIN momentEdges :
        /\ momentEdges[i].relationship = "NoteSimultaneousWithNote"
        /\ {momentEdges[i].start, momentEdges[i].end} = {a, b}}

SoundTogether(a, b) ==
    \E k \in DOMAIN moments :
        SoundingAt(a, moments[k].offset) /\ SoundingAt(b, moments[k].offset)

\* C2: once every Moment has been extracted there is exactly one
\* NoteSimultaneousWithNote edge for every unordered pair of leaves that
\* sound together at some Moment, and never a second one in either direction.
C2_OneEdgePerPair ==
    /\ \A a, b \in Leaves :
          a # b => Cardinality(SimulEdgesBetween(a, b)) <= 1
    /\ mpc = "done" =>
          \A a, b \in Leaves :
             (a # b /\ SoundTogether(a, b)) =>
                Cardinality(SimulEdgesBetween(a, b)) = 1

-----------------------------------------------------------------------------
(* Properties of addScore *)

StagedRows == FlushBuffer(farm).nodeLookup
StagedEdges == FlushBuffer(farm).edges
RowsOf(h) == {i \in DOMAIN StagedRows : StagedRows[i].hash = h}
NodesWritten == ipc \in {"edges", "done"} \/ failedAt = "edges"

\* C3: when _writeNodesToDatabase has returned, every staged vertex row has
\* been submitted exactly once, in insertion order, and nodeRefs maps every
\* identity key to the reference returned for its row.
C3_RowsSubmittedOnce ==
    NodesWritten =>
        /\ submitted = [i \in DOMAIN StagedRows |-> i]
        /\ \A i \in DOMAIN StagedRows :
              /\ StagedRows[i].hash \in DOMAIN nodeRefs
              /\ \E j \in DOMAIN submitted :
                    submitted[j] = i /\ nodeRefs[StagedRows[i].hash] = j

\* What a recorded callback call returned (Raises: it raised instead).
ReturnOf(cb) ==
    CASE cb.name \in {"labelChordNotes", "addPitchToNote", "skipThisObject"}
           -> HIDEFROMDATABASE
      [] cb.name = "user" -> cb.rc
      [] OTHER -> None

Descendants(t, o) == {d \in DOMAIN t.kind : o \in Ancestors(t, d)}
CalledOn(o) == {i \in DOMAIN calls : calls[i].obj = o}
HideCalls ==
    {i \in DOMAIN calls : ReturnOf(calls[i].callback) = HIDEFROMDATABASE}
ValueCalls ==
    {i \in DOMAIN calls : ReturnOf(calls[i].callback) \notin {None, Raises}}
IsParentEdge(e) == Len(e.relationship) = 3 /\ e.relationship[2] = "In"
ParentEdgesOf(o) ==
    {i \in DOMAIN StagedEdges :
        StagedEdges[i].startNodeHash = o /\ IsParentEdge(StagedEdges[i])}
KeysOf(e) == {e.startNodeHash, e.endNodeHash}
CurrentEdgeBatch == GetEdgeBatch(farm, idx, batchSize)

\* C4: no edge is submitted before every staged vertex row has been
\* submitted; an edge batch holding an edge whose start or end key has no
\* remote reference makes addScore fail and submits none of its edges, so
\* every remote edge joins two remote vertices.
C4_VerticesBeforeEdges ==
    /\ ipc \in {"idle", "extract", "nodes"} => remoteEdges = <<>>
    /\ submittedEdges # <<>> => DOMAIN StagedRows \subseteq Range(submitted)
    /\ \A j \in DOMAIN remoteEdges :
          /\ remoteEdges[j].start \in DOMAIN remoteNodes
          /\ remoteEdges[j].end \in DOMAIN remoteNodes
    /\ \A i \in Range(submittedEdges) :
          KeysOf(StagedEdges[i]) \subseteq DOMAIN nodeRefs
    /\ ipc = "done" =>
          \A i \in DOMAIN StagedEdges :
              KeysOf(StagedEdges[i]) \subseteq DOMAIN nodeRefs
    /\ (/\ failedAt = "edges"
        /\ \E i \in DOMAIN CurrentEdgeBatch :
              ~(KeysOf(CurrentEdgeBatch[i].row) \subseteq DOMAIN nodeRefs))
          => \A i \in DOMAIN CurrentEdgeBatch :
                CurrentEdgeBatch[i].rowid \notin Range(submittedEdges)

\* addScore failed in the edge commit on an edge whose key has no remote
\* reference, after the vertices were submitted.
C4_Witness ==
    /\ failedAt = "edges"
    /\ remoteNodes # <<>>
    /\ remoteEdges = <<>>
    /\ \E i \in DOMAIN StagedEdges :
          /\ StagedEdges[i].startNodeHash \notin DOMAIN nodeRefs
          /\ StagedEdges[i].endNodeHash \in DOMAIN nodeRefs

C6_AnyValueSuppresses ==
    \A i \in ValueCalls :
        /\ \A j \in CalledOn(calls[i].obj) : calls[j].pos <= calls[i].pos
        /\ RowsOf(Hash(calls[i].obj)) = {}

\* C6: a callback that returns any value other than None stops the remaining
\* callbacks of the node; the node is kept out of the staging store when the
\* value is HIDEFROMDATABASE, and is staged with its parent edge when it is
\* any other value.
C6_OnlyHideSuppresses ==
    \A i \in ValueCalls :
        LET o == calls[i].obj
        IN /\ \A j \in CalledOn(o) : calls[j].pos <= calls[i].pos
           /\ ReturnOf(calls[i].callback) = HIDEFROMDATABASE =>
                 RowsOf(Hash(o)) = {}
           /\ ReturnOf(calls[i].callback) # HIDEFROMDATABASE =>
                 /\ RowsOf(Hash(o)) # {}
                 /\ score.parent[o] # 0 => ParentEdgesOf(Hash(o)) # {}

\* A registered function returned 2 for an object whose class has another
\* function registered behind it.
C6_Witness ==
    \E i \in ValueCalls :
        /\ ReturnOf(calls[i].callback) = 2
        /\ Len(callbacks[score.kind[calls[i].obj]]) > calls[i].pos
        /\ CalledOn(calls[i].obj) =
              {j \in DOMAIN calls : j <= i /\ j >= i - calls[i].pos + 1}
        /\ RowsOf(Hash(calls[i].obj)) # {}

\* C7: when no callback hid a node, the staging store holds one vertex
\* record per object of the score, of the object's class, and for every
\* object but the root one parent edge, named <class>In<parent class>.
C7_OneVertexPerObject ==
    (ipc \in {"nodes", "edges", "done"} /\ HideCalls = {}) =>
        \A o \in DOMAIN score.kind :
            /\ Cardinality(RowsOf(Hash(o))) = 1
            /\ \A r \in RowsOf(Hash(o)) :
                  StagedRows[r].vertex.type = score.kind[o]
            /\ Cardinality(ParentEdgesOf(Hash(o))) =
                  IF score.parent[o] = 0 THEN 0 ELSE 1
            /\ \A e \in ParentEdgesOf(Hash(o)) :
                  /\ StagedEdges[e].endNodeHash = Hash(score.parent[o])
                  /\ StagedEdges[e].relationship =
                        <<score.kind[o], "In", score.kind[score.parent[o]]>>

\* C8: the staging store holds at most one vertex record per identity key.
C8_OneRecordPerKey ==
    \A i, j \in DOMAIN StagedRows :
        StagedRows[i].hash = StagedRows[j].hash => i = j

\* C9 as stated: a failed addScore leaves none of its vertices or edges in
\* the remote store.
C9_AllOrNothing ==
    ipc = "failed" => remoteNodes = <<>> /\ remoteEdges = <<>>

\* C9: addScore does not roll back.  When it fails during extraction the
\* remote store holds none of its vertices or edges; when it fails in the
\* vertex commit the store holds the vertices of the batches submitted
\* before and no edge; when it fails in the edge commit the store holds
\* every staged vertex and the edges of the batches submitted before.
C9_NoRollback ==
    /\ failedAt = "extract" => remoteNodes = <<>> /\ remoteEdges = <<>>
    /\ failedAt = "nodes" =>
          /\ remoteEdges = <<>>
          /\ Len(remoteNodes) = Len(submitted)
          /\ Range(submitted) \subseteq DOMAIN StagedRows
    /\ failedAt = "edges" =>
          /\ remoteNodes # <<>>
          /\ Len(remoteNodes) = Len(submitted)
          /\ Range(submitted) = DOMAIN StagedRows
          /\ Len(remoteEdges) = Len(submittedEdges)

\* addScore failed in the edge commit and its vertices are in the store.
C9_Witness ==
    /\ ipc = "failed"
    /\ failedAt = "edges"
    /\ StagedEdges # <<>>
    /\ Range(submitted) = DOMAIN StagedRows
    /\ Len(remoteNodes) >= Len(StagedRows)

-----------------------------------------------------------------------------
(* Properties of Query *)

\* What _assemblePattern builds from the Query as it is now.
FromScratch ==
    Assemble(start, match, where, returns, limitReturnToWhere, order)

\* A call of _assemblePattern that returned: it ends what was pending.
Compiled == qpc' = "open" /\ pendingOps' = "nothing" /\ returned' # NoText

\* C10: the cached pattern is the text a compilation from scratch gives;
\* a compilation with no mutator call after the last one returns the same
\* text; the compilation after mutator calls returns the from-scratch text
\* of the current Query, and a text other than the earlier one when the
\* calls added a Relationship, a filter or a Property not yet returned.
C10_PatternNeverStale ==
    /\ [](pattern # NoText => pattern = FromScratch)
    /\ []((returned # NoText /\ pendingOps = "nothing") =>
             returned = FromScratch)
    /\ [][(returned # NoText /\ pendingOps = "nothing") =>
             returned' = returned]_vars
    /\ [][(returned # NoText /\ pendingOps = "added" /\ Compiled) =>
             returned' # returned]_vars

\* A pattern was compiled, mutators added a Relationship and a filter or a
\* Property, and the pattern was compiled again.
C10_Witness ==
    /\ returned # NoText
    /\ since = "added"
    /\ pendingOps = "nothing"
    /\ pattern = returned
    /\ match # <<>>
    /\ where # <<>> \/ returns # <<>>

\* C11: a call of results() without a pattern, or of _assemblePattern(), on
\* a Query with no start clause ends the process, and no query reaches the
\* remote store.
C11_NoAnchorIsFatal ==
    /\ [][(/\ start = NoText
            /\ ncalls' # ncalls
            /\ lastCall' \in {"_assemblePattern", "results"})
           => qpc' = "exited" /\ qerror' = "exit" /\ sent' = sent]_vars
    /\ [](\A i \in DOMAIN sent : sent[i].given \/ sent[i].pattern # NoText)
    /\ [](start = NoText => \A i \in DOMAIN sent : sent[i].given)

\* results() was called on a Query without a start clause: the process has
\* ended and the store has received nothing.
C11_Witness ==
    /\ lastCall = "results"
    /\ start = NoText
    /\ qpc = "exited"
    /\ sent = <<>>

\* C12: the names in _usedNames are pairwise distinct; a call that raises
\* ValueError for a name in use sets no start clause and adds no
\* Relationship, and the names it leaves registered are the random names of
\* the Nodes made before the name was tested.
C12_NamesDistinct ==
    /\ [](\A i, j \in DOMAIN usedNames :
             usedNames[i] = usedNames[j] => i = j)
    /\ [][(ncalls' # ncalls /\ qerror' = "ValueError") =>
             /\ start' = start
             /\ match' = match
             /\ Len(usedNames') >= Len(usedNames)
             /\ SubSeq(usedNames', 1, Len(usedNames)) = usedNames
             /\ \A i \in (Len(usedNames) + 1)..Len(usedNames') :
                   /\ usedNames'[i][1] = "Generic"
                   /\ usedNames'[i] \notin Range(usedNames)
             /\ lastCall' = "setStartNode" => usedNames' = usedNames]_vars

\* A Node was asked for under a name that is in use: ValueError was raised
\* and the name is registered once.
C12_Witness ==
    /\ lastCall = "setStartNode"
    /\ qerror = "ValueError"
    /\ <<"Note", "0000">> \in Range(usedNames)
    /\ Len(usedNames) >= 2

-----------------------------------------------------------------------------
(* Properties of paging *)

\* C13: when the windows (0,L), (L,L), (2L,L), ... have been read up to
\* the empty response, every matching row has been returned exactly once.
C13_EveryRowOnce ==
    ppc = "done" =>
        /\ Range(fetched) = storeRows
        /\ Len(fetched) = Cardinality(storeRows)

-----------------------------------------------------------------------------
(* Properties of the reconstruction *)

\* A matched Note lies in measure k of part p.
MatchedIn(p, k) ==
    \E i \in DOMAIN resultNotes :
        resultNotes[i].part = p /\ resultNotes[i].number = k

\* C14: when matched Notes lie in measures a and b (a < b) of one part, the
\* rebuilt Score contains every Measure of that part numbered a..b, also
\* those that hold no matched Note.
C14_RangeRebuilt ==
    rpc = "done" =>
        \A p \in PartNumbers, a, b \in 1..MaxMeasure :
            (a < b /\ MatchedIn(p, a) /\ MatchedIn(p, b)) =>
                \A m \in remoteScore :
                    (m.part = p /\ m.number \in a..b) => m \in inserted

\* Matches in measures 1 and 3 of a part have brought in its measure 2.
C14_Witness ==
    /\ rpc = "done"
    /\ \E p \in PartNumbers :
         /\ MatchedIn(p, 1) /\ MatchedIn(p, 3) /\ ~MatchedIn(p, 2)
         /\ MeasureNode(p, 2) \in inserted

MatchedNumbers(p) == {k \in 1..MaxMeasure : MatchedIn(p, k)}
MeasuresHeld(p) == {m \in nodes : m.type = "Measure" /\ m.part = p}
Filled == rpc \in {"hierarchy", "filled", "done"} /\ resultNotes # <<>>

\* C15 as stated: for every part that holds a matched Note, the Measures
\* of the working set are exactly those numbered between the least and the
\* greatest measure number of the Notes matched in that same part.
C15_PerPartRange ==
    Filled =>
        \A p \in PartNumbers :
            MatchedNumbers(p) # {} =>
                MeasuresHeld(p) =
                    {MeasureNode(p, k) :
                        k \in SetMin(MatchedNumbers(p))..SetMax(MatchedNumbers(p))}

\* C15, amended: for every part that holds a matched Note, the Measures of
\* the working set are exactly those numbered between the least and the
\* greatest measure number of the Notes matched in any part; of a part that
\* holds no matched Note the working set has no Measure.
C15_SharedRange ==
    Filled =>
        LET all == UNION {MatchedNumbers(q) : q \in PartNumbers}
        IN \A p \in PartNumbers :
               MeasuresHeld(p) =
                   IF MatchedNumbers(p) = {} THEN {}
                   ELSE {MeasureNode(p, k) : k \in SetMin(all)..SetMax(all)}

\* Matches in measure 1 of part 1 and measure 3 of part 2 only: both parts
\* hold measures 1 to 3.
C15_Witness ==
    /\ Filled
    /\ MatchedNumbers(1) = {1}
    /\ MatchedNumbers(2) = {3}
    /\ MeasureNode(1, 3) \in nodes
    /\ MeasureNode(2, 1) \in nodes

\* C16: in the Score music21Score returns, every rebuilt object of a Note of
\* the result row has as queryName the column name at a position of that
\* Note in the row, and no other rebuilt object has a queryName, whatever
\* else the row holds before its Notes.
C16_QueryNameIsColumn ==
    rpc = "done" =>
        \A x \in inserted :
            IF IsNote(x) /\ x \in Range(resultList)
            THEN /\ x \in DOMAIN queryNames
                 /\ \E i \in DOMAIN resultList :
                      resultList[i] = x /\ queryNames[x] = metadata[i]
            ELSE x \notin DOMAIN queryNames

\* The visits whose construction callback returned None, and the objects
\* the other visits built.
NullVisits == {v \in visited : ReturnsNone(v.relation.type)}
BuiltByVisits ==
    {v.relation.start : v \in {w \in visited : ~ReturnsNone(w.relation.type)}}

\* A visit whose callback returned None inserts nothing and is not
\* recursed into.
NullVisitsAreLeaves ==
    /\ inserted = BuiltByVisits
    /\ \A w \in visited : ~ReturnsNone(w.under)

\* C17 as stated: the child of a visit whose callback returned None is not
\* inserted by that visit and not recursed into, and its remote identity is
\* registered in nodeLookup.
C17_NullChildRegistered ==
    rpc = "done" =>
        /\ NullVisitsAreLeaves
        /\ \A v \in NullVisits : v.relation.start \in nodeLookup

\* C17, amended: the child of a visit whose callback returned None is not
\* inserted by that visit and not recursed into, and the visit registers
\* nothing: nodeLookup holds the identities of the objects the callbacks
\* returned, and no other.
C17_NullChildNotRegistered ==
    rpc = "done" =>
        /\ NullVisitsAreLeaves
        /\ nodeLookup = BuiltByVisits

\* The rebuild has visited a Beam, which is in neither the Score nor
\* nodeLookup, and a Part below the StaffGroup.
C17_Witness ==
    /\ rpc = "done"
    /\ \E v \in NullVisits :
         /\ v.relation.type = "BeamInNote"
         /\ v.relation.start \notin inserted
         /\ v.relation.start \notin nodeLookup
    /\ \E v \in NullVisits : v.relation.type = "PartInStaffGroup"

MeasuresInSet == {m \in nodes : m.type = "Measure"}
LeavesFilled == \A m \in MeasuresInSet : NotesOf(m) \subseteq nodes
NoExpansion == \A x \in nodes : x.type # "Beam"

\* C18 as stated: after _addHierarchicalNodes with buildFullScore false,
\* every Measure of the working set holds all the Notes it contains, and
\* only the expansion by one more layer is left out.
C18_LeafFillUnconditional ==
    (rpc = "filled" /\ ~buildFullScore) => (LeavesFilled /\ NoExpansion)

\* C18, amended: after _addHierarchicalNodes with buildFullScore false the
\* working set holds no Note but the matched ones and nothing of the layer
\* below; with buildFullScore true every Measure holds all its Notes.
C18_LeafFillOnlyWhenFull ==
    rpc = "filled" =>
        IF buildFullScore THEN LeavesFilled
        ELSE /\ {x \in nodes : x.type = "Note"} = Range(resultNotes)
             /\ NoExpansion

\* A call with buildFullScore false has returned a Measure without one of
\* its Notes.
C18_Witness ==
    /\ rpc = "filled"
    /\ ~buildFullScore
    /\ \E m \in MeasuresInSet : ~(NotesOf(m) \subseteq nodes)

-----------------------------------------------------------------------------
(* Properties of the remote calls *)

\* C19: on every path a connection failure is retried a bounded number of
\* times with a delay between the attempts, and is surfaced once the bound
\* is exhausted: a call that raises has executed the remote call more than
\* once and at most MaxAttempts + 1 times, and has slept between any two
\* executions.
C19_BoundedRetryEverywhere ==
    /\ tries <= MaxAttempts + 1
    /\ cpc = "raised" => (tries > 1 /\ sleeps = tries - 1)

-----------------------------------------------------------------------------
(* Properties of NodeFarm *)

\* One write command executed on the tables.
Executed(t, c) ==
    CASE c.op = "insertNode" ->
           [t EXCEPT !.nodeLookup =
               Append(@, [hash |-> c.hash, parentHash |-> c.parentHash,
                          vertex |-> c.vertex])]
      [] c.op = "updateNode" ->
           [t EXCEPT !.nodeLookup =
               [i \in DOMAIN @ |->
                   IF @[i].hash = c.hash THEN [@[i] EXCEPT !.vertex = c.vertex]
                   ELSE @[i]]]
      [] OTHER ->
           [t EXCEPT !.edges =
               Append(@, [startNodeHash |-> c.hash,
                          relationship |-> c.relationship,
                          endNodeHash |-> c.parentHash])]

\* The tables after the first n commands issued, executed one by one in
\* the order of issue.
RECURSIVE TablesAfter(_)
TablesAfter(n) ==
    IF n = 0 THEN [nodeLookup |-> <<>>, edges |-> <<>>]
    ELSE Executed(TablesAfter(n - 1), issued[n])

\* What the last read returns from tables that hold every command issued.
ReadOfAll ==
    LET t == TablesAfter(Len(issued))
    IN CASE lastRead.op = "getNodeFromHash" ->
              FirstWithHash(t.nodeLookup, lastRead.arg)
         [] lastRead.op = "getNodeBatch" ->
              BatchFrom(t.nodeLookup, lastRead.arg, lastRead.limit)
         [] lastRead.op = "getEdgeBatch" ->
              BatchFrom(t.edges, lastRead.arg, lastRead.limit)
         [] OTHER -> <<>>

\* C20: a read of the staging store first executes the queued writes in
\* the order they were queued: when it returns the write buffer is empty,
\* the tables hold every addNode, updateNode and addEdge issued before it,
\* executed in the order of issue, and what it returns is read from those
\* tables.
C20_ReadsFlushFirst ==
    [][issued' = issued =>
         /\ farm'.writeBuffer = <<>>
         /\ farm'.nodeLookup = TablesAfter(Len(issued)).nodeLookup
         /\ farm'.edges = TablesAfter(Len(issued)).edges
         /\ readResult' = ReadOfAll']_vars

\* A read has returned a row that was updated while it was queued, and an
\* edge that was queued.
C20_Witness ==
    /\ lastRead.op = "getNodeFromHash"
    /\ farm.writeBuffer = <<>>
    /\ Len(issued) >= 3
    /\ issued[1].op = "insertNode"
    /\ issued[2].op = "updateNode"
    /\ issued[2].hash = issued[1].hash
    /\ issued[2].vertex # issued[1].vertex
    /\ issued[1].vertex = NoteVertex
    /\ issued[3].op = "insertEdge"
    /\ readResult # <<>>
    /\ readResult[1].row.vertex = issued[2].vertex
    /\ Len(farm.edges) = 1

-----------------------------------------------------------------------------
(* Properties of the write buffer *)

\* C21: after any run of addNode, updateNode and addEdge calls the write
\* buffer holds at most 1001 queued writes: a write made on a buffer of more
\* than 1000 entries flushes first and leaves one entry, any other write adds
\* one entry; a flush empties the buffer, and a flush on an empty buffer
\* leaves the farm as it was.
C21_BufferBounded ==
    /\ [](Len(farm.writeBuffer) <= FlushThreshold + 1)
    /\ [][/\ issued' # issued =>
               Len(farm'.writeBuffer) =
                  IF Len(farm.writeBuffer) > FlushThreshold
                  THEN 1 ELSE Len(farm.writeBuffer) + 1
          /\ (issued' = issued /\ lastRead'.op = "flushBuffer") =>
               /\ farm'.writeBuffer = <<>>
               /\ farm.writeBuffer = <<>> => farm' = farm]_vars

\* A write found 1001 entries queued, flushed them and queued itself.
C21_Witness ==
    /\ Len(issued) = FlushThreshold + 2
    /\ Len(farm.writeBuffer) = 1
    /\ Len(farm.nodeLookup) + Len(farm.edges) = FlushThreshold + 1

-----------------------------------------------------------------------------
(* Properties of the NoteSimultaneousWithNote edge *)

SimulEdges ==
    {e \in Range(momentEdges) : e.relationship = "NoteSimultaneousWithNote"}

\* C22: the sameOffset property of a NoteSimultaneousWithNote edge is "True"
\* exactly when its two notes have the same absolute onset in the score, and
\* "False" otherwise, also for two notes that have equal offsets inside
\* different measures.
C22_SameOffsetIsAbsolute ==
    \A e \in SimulEdges :
        /\ e.sameOffset \in {"True", "False"}
        /\ e.sameOffset = "True" <=>
              AbsOffset(notes[e.start]) = AbsOffset(notes[e.end])

\* C27: for two notes with integer MIDI pitches p1 and p2 the
\* NoteSimultaneousWithNote edge carries harmonicInterval = |p1 - p2| and
\* simpleHarmonicInterval = |p1 - p2| modulo 12, a value in 0..11; and
\* _signedModulo(p1 - p2, 12) ends with a value that never has the sign
\* opposite to p1 - p2, is congruent to it modulo 12 and is below 12 in
\* magnitude.
C27_Intervals ==
    \A e \in SimulEdges :
        LET v == notes[e.start].midi - notes[e.end].midi
            r == SignedModulo(v, 12)
        IN /\ e.harmonicInterval = Abs(v)
           /\ e.simpleHarmonicInterval = Abs(v) % 12
           /\ e.simpleHarmonicInterval \in 0..11
           /\ v >= 0 => r >= 0
           /\ v <= 0 => r <= 0
           /\ (r - v) % 12 = 0
           /\ Abs(r) < 12

\* An edge between two notes more than two octaves apart, the first the lower.
C27_Witness ==
    \E e \in SimulEdges :
        /\ notes[e.start].midi - notes[e.end].midi = -25
        /\ e.harmonicInterval = 25
        /\ e.simpleHarmonicInterval = 1

-----------------------------------------------------------------------------
(* Properties of musicNetServer *)

\* C23: a token expires half an hour after submitquery issued it: no token
\* that was more than 1800 seconds old at the last expireTokens call is
\* still in app.tokens (so that getresults and getimages answer it with the
\* "invalid or has expired" error), and every token that was younger then
\* is still there.
C23_TokensExpire ==
    /\ \A t \in DOMAIN tokens :
          lastExpiry - Item(tokens[t], 3).num <= TokenLifetime
    /\ \A t \in DOMAIN issuedAt :
          lastExpiry - issuedAt[t].at <= TokenLifetime => t \in DOMAIN tokens

\* C26: getimages answers "makePreviews was not set in the query
\* submission." exactly when the query of the token was submitted without
\* makePreviews, whatever its nodes and returns.
C26_ErrorIffNoPreviews ==
    (response.service = "getimages" /\ response.error # ExpiredError) =>
        (response.error = NoPreviewsError <=> ~response.makePreviews)

CountIn(queue, imageDict) ==
    Cardinality({i \in DOMAIN queue : queue[i] = imageDict})

HeldInImages(imageDict) ==
    Cardinality({h \in (DOMAIN images) \X (1..jobsMade) :
                    /\ h[2] \in DOMAIN images[h[1]]
                    /\ images[h[1]][h[2]] = imageDict})

RECURSIVE Sum(_, _)
Sum(bag, keys) ==
    IF keys = {} THEN 0
    ELSE LET k == CHOOSE x \in keys : TRUE
         IN bag[k] + Sum(bag, keys \ {k})

DeliveredCount(imageDict) ==
    Sum(delivered, {d \in DOMAIN delivered : d.imageDict = imageDict})

\* C28: every record a worker has put on outQueue is in exactly one place:
\* still on outQueue, kept in app.images under its own token, or returned
\* once by getimages in a response for its own token; its token is one that
\* getimages serves; and a getimages response for a token returns every
\* record of that token put on outQueue before it.
C28_RecordsDeliveredOnce ==
    /\ [](/\ \A imageDict \in produced :
               /\ CountIn(outQueue, imageDict) + HeldInImages(imageDict)
                     + DeliveredCount(imageDict) = 1
               /\ imageDict.token \in DOMAIN tokens
               /\ Truthy(Item(tokens[imageDict.token], 1))
          /\ \A t \in DOMAIN images :
               \A i \in DOMAIN images[t] : images[t][i].token = t
          /\ \A d \in DOMAIN delivered : d.token = d.imageDict.token)
    /\ [][(response' # response /\ response'.service = "getimages") =>
             \A imageDict \in produced :
                imageDict.token = response'.token =>
                   DeliveredCount(imageDict)' = 1]_vars

\* A request for one token has drained a record of another token, which is
\* kept in app.images, and a record had been returned for its own token.
C28_Witness ==
    /\ response.service = "getimages"
    /\ response.error = ""
    /\ \E t \in DOMAIN images :
          /\ t # response.token
          /\ images[t] # <<>>
    /\ delivered # <<>>

-----------------------------------------------------------------------------
(* Properties of wipeDatabase and listRelationshipTypes *)

C30_ListTerminates ==
    /\ <>(lpc = "returned")
    /\ [](lpc = "returned" /\ storeTypes = {} => listResult = <<>>)
    /\ []((lpc = "returned" /\ listCalls = 2) =>
             /\ listResult = firstResult
             /\ ~queriedInCall)

-----------------------------------------------------------------------------
(* Properties of the edge commit *)

TimesSubmitted(i) ==
    Cardinality({j \in DOMAIN submittedEdges : submittedEdges[j] = i})

\* C25: when _writeEdgesToDatabase has returned, every staged edge row has
\* been submitted exactly once, for one batch and for several, and each
\* submitted edge has the remote references of its row's start and end
\* identity keys as its ends.
C25_EdgesSubmittedOnce ==
    ipc = "done" =>
        /\ \A i \in DOMAIN StagedEdges : TimesSubmitted(i) = 1
        /\ Len(remoteEdges) = Len(submittedEdges)
        /\ \A j \in DOMAIN remoteEdges :
              /\ remoteEdges[j].start =
                    nodeRefs[StagedEdges[submittedEdges[j]].startNodeHash]
              /\ remoteEdges[j].end =
                    nodeRefs[StagedEdges[submittedEdges[j]].endNodeHash]
              /\ remoteEdges[j].relationship =
                    StagedEdges[submittedEdges[j]].relationship

-----------------------------------------------------------------------------
(* Properties of the preview pool *)

HeldByWorker(j) ==
    \E i \in 1..workerCount :
        /\ previewWorkers[i].state = "alive"
        /\ previewWorkers[i].job # <<>>
        /\ previewWorkers[i].job[1].id = j

RecordsOf(j) == {k \in DOMAIN redisOut : redisOut[k].path = j}

\* C29: every job pushed onto inQueue is popped by nothing but the run loop
\* of one worker, and once popped it is held by that worker or has led to
\* exactly one record on outQueue, also when workers are started or replaced
\* while jobs are waiting.
C29_JobsBecomeRecords ==
    \A j \in 1..pushedJobs :
        /\ [id |-> j, by |-> "__init__"] \notin pops
        /\ Cardinality(RecordsOf(j)) <= 1
        /\ [id |-> j, by |-> "run"] \in pops =>
              \/ HeldByWorker(j)
              \/ Cardinality(RecordsOf(j)) = 1

=============================================================================
